---- MODULE Spec2Model ----
(***************************************************************************)
(* A model of the chain indexer of taiko-proofs (IndexerService).          *)
(*                                                                         *)
(* Part I  : run orchestration and the database lock (runIndexing,         *)
(*           acquireIndexingLock, checkpointIndexingProgress,              *)
(*           releaseIndexingLock, formatError), specification SpecRun.     *)
(* Part II : the Batch / BatchProof store and processRange (rollbackRange, *)
(*           reconcileBatch, the four event handlers), specification       *)
(*           SpecStore.                                                    *)
(* Part III: getLogsSafe, specification SpecFetch.                         *)
(* Part IV : runIndexing under every configuration, specification SpecPlan.*)
(* Part V  : classifyProof and the verifier registry, SpecClassify.        *)
(* Part VI : crashes and recurring triggers, specification SpecLock.       *)
(***************************************************************************)
EXTENDS Integers, Sequences, FiniteSets, TLC

VARIABLES
    now,            \* the clock read by NOW() and Date.now()
    indexingState,  \* the indexing_state row of this chain id, or NoRow
    runs,           \* one runIndexing() invocation per run id: its locals and position
    lastWrite,      \* the processRange call that last wrote Batch/BatchProof rows
    chain,          \* the event logs of the canonical chain, in chain order
    batches,        \* the Batch table: batch id -> row
    proofs,         \* the BatchProof table: a set of rows
    lastVerifiedBatchId, \* IndexerService.lastVerifiedBatchId (in memory)
    pass,           \* the position of the processRange call in progress
    hist,           \* what the previous processRange call over this chain did
    reorgs,         \* the reorganisations so far
    passes,         \* the processRange calls started so far
    verifiedWith,   \* batch id -> the blockHash of the BatchesVerified event that
                    \* verified it, while no rollback has undone that verification
    fetch,          \* the getLogsSafe call in progress: its queue and results
    plan,           \* one process's runIndexing under a configuration of its own
    classify        \* the verifier registry and the classifyProof call in progress

runVars == <<now, indexingState, runs, lastWrite>>
storeVars == <<chain, batches, proofs, lastVerifiedBatchId, pass, hist, reorgs, passes, verifiedWith>>
auxVars == <<fetch, plan, classify>>
vars == <<now, indexingState, runs, lastWrite, chain, batches, proofs, lastVerifiedBatchId, pass, hist,
          reorgs, passes, verifiedWith, fetch, plan, classify>>

\* SQL NULL / undefined in a numeric column
NULL == -1
\* the state before the first insert into indexing_state
NoRow == [ exists |-> FALSE, lastProcessedBlock |-> NULL, lockId |-> NULL,
           lockExpiresAt |-> NULL, lastRunStatus |-> "none", lastRunError |-> NULL ]

(***************************************************************************)
(* Bounds of the model and configuration values (AppConfigService).        *)
(***************************************************************************)
NumRuns == 2
MaxTime == 3
MaxHead == 4

indexerLockTtlSeconds == 1
confirmations == 1
reorgBuffer == 1
indexerChunkSize == 2
configStartBlock == 0

MaxErrorLength == 2000

Runs == 1..NumRuns
Heads == 0..MaxHead
\* the log counts processRange may return
LogCounts == {0, 1}

(***************************************************************************)
(* Values a step of the pass can throw. Strings are modelled by their      *)
(* length: slice(0, n) of a string of length l has length min(l, n).       *)
(***************************************************************************)
ErrorObject(messageLen, nameLen) ==
    [isError |-> TRUE, messageLen |-> messageLen, nameLen |-> nameLen, stringLen |-> messageLen]

NoError == [isError |-> FALSE, messageLen |-> 0, nameLen |-> 0, stringLen |-> 0]

ThrownValues ==
    { ErrorObject(0, 5), ErrorObject(MaxErrorLength + 1, 5),
      [isError |-> FALSE, messageLen |-> 0, nameLen |-> 0, stringLen |-> MaxErrorLength + 500] }

\* new Error("Indexer lock lost or expired")
LockLostError == ErrorObject(28, 5)

slice(len, end) == IF len < end THEN len ELSE end

formatErrorNoSlice(error) ==
    IF error.isError
    THEN (IF error.messageLen # 0 THEN error.messageLen ELSE error.nameLen)
    ELSE error.stringLen

formatError(error) ==
    IF error.isError
    THEN slice(IF error.messageLen # 0 THEN error.messageLen ELSE error.nameLen, MaxErrorLength)
    ELSE slice(error.stringLen, MaxErrorLength)

(***************************************************************************)
(* The lock statements on indexing_state. Each is one SQL statement.       *)
(***************************************************************************)
NewRow(startBlock, lockId, t) ==
    [ exists |-> TRUE,
      lastProcessedBlock |-> startBlock,
      lockId |-> lockId,
      lockExpiresAt |-> t + indexerLockTtlSeconds,
      lastRunStatus |-> "running",
      lastRunError |-> NULL ]

Relock(st, lockId, t) ==
    [ st EXCEPT !.lockId = lockId,
                !.lockExpiresAt = t + indexerLockTtlSeconds,
                !.lastRunStatus = "running",
                !.lastRunError = NULL ]

\* mutant: the upsert without its WHERE clause
acquireIndexingLockUnconditional(st, lockId, startBlock, t) ==
    IF ~st.exists
    THEN [state |-> NewRow(startBlock, lockId, t), acquired |-> TRUE, lastProcessedBlock |-> startBlock]
    ELSE [state |-> Relock(st, lockId, t), acquired |-> TRUE, lastProcessedBlock |-> st.lastProcessedBlock]

\* mutant: an expired lock is never taken over
acquireIndexingLockAbsentOnly(st, lockId, startBlock, t) ==
    IF ~st.exists
    THEN [state |-> NewRow(startBlock, lockId, t), acquired |-> TRUE, lastProcessedBlock |-> startBlock]
    ELSE IF st.lockExpiresAt = NULL
         THEN [state |-> Relock(st, lockId, t), acquired |-> TRUE, lastProcessedBlock |-> st.lastProcessedBlock]
         ELSE [state |-> st, acquired |-> FALSE, lastProcessedBlock |-> NULL]

\* mutant: the conflict branch also sets last_processed_block to the inserted value
acquireIndexingLockOverwrites(st, lockId, startBlock, t) ==
    IF ~st.exists \/ st.lockExpiresAt = NULL \/ st.lockExpiresAt < t
    THEN [state |-> NewRow(startBlock, lockId, t), acquired |-> TRUE, lastProcessedBlock |-> startBlock]
    ELSE [state |-> st, acquired |-> FALSE, lastProcessedBlock |-> NULL]

\* acquireIndexingLock: INSERT ... ON CONFLICT (chain_id) DO UPDATE ... WHERE the
\* lock is free or expired, RETURNING last_processed_block
acquireIndexingLock(st, lockId, startBlock, t) ==
    IF ~st.exists
    THEN [state |-> NewRow(startBlock, lockId, t), acquired |-> TRUE, lastProcessedBlock |-> startBlock]
    ELSE IF st.lockExpiresAt = NULL \/ st.lockExpiresAt < t
         THEN [state |-> Relock(st, lockId, t), acquired |-> TRUE, lastProcessedBlock |-> st.lastProcessedBlock]
         ELSE [state |-> st, acquired |-> FALSE, lastProcessedBlock |-> NULL]

\* mutant: the update matches on the chain id alone
checkpointIndexingProgressAnyToken(st, lockId, lastProcessedBlock, t) ==
    IF st.exists
    THEN [state |-> [st EXCEPT !.lastProcessedBlock = lastProcessedBlock,
                               !.lockExpiresAt = t + indexerLockTtlSeconds],
          threw |-> FALSE]
    ELSE [state |-> st, threw |-> TRUE]

\* updateMany where {chainId, lockId}; throws when no row matched
checkpointIndexingProgress(st, lockId, lastProcessedBlock, t) ==
    IF st.exists /\ st.lockId = lockId
    THEN [state |-> [st EXCEPT !.lastProcessedBlock = lastProcessedBlock,
                               !.lockExpiresAt = t + indexerLockTtlSeconds],
          threw |-> FALSE]
    ELSE [state |-> st, threw |-> TRUE]

\* mutant: the release matches on the chain id alone
releaseIndexingLockAnyToken(st, lockId, status, error) ==
    IF st.exists
    THEN [st EXCEPT !.lockId = NULL,
                    !.lockExpiresAt = NULL,
                    !.lastRunStatus = status,
                    !.lastRunError = IF status = "failed" THEN formatError(error) ELSE NULL]
    ELSE st

\* mutant: the release leaves the expiry in place
releaseIndexingLockKeepExpiry(st, lockId, status, error) ==
    IF st.exists /\ st.lockId = lockId
    THEN [st EXCEPT !.lockId = NULL,
                    !.lastRunStatus = status,
                    !.lastRunError = IF status = "failed" THEN formatError(error) ELSE NULL]
    ELSE st

releaseIndexingLock(st, lockId, status, error) ==
    IF st.exists /\ st.lockId = lockId
    THEN [st EXCEPT !.lockId = NULL,
                    !.lockExpiresAt = NULL,
                    !.lastRunStatus = status,
                    !.lastRunError = IF status = "failed" THEN formatError(error) ELSE NULL]
    ELSE st

(***************************************************************************)
(* runIndexing, one action per awaited step.                               *)
(***************************************************************************)
\* the same four computations under a configuration given as arguments
SafeBlockFor(latestBlock, conf) ==
    IF latestBlock > conf THEN latestBlock - conf ELSE latestBlock

StartBlockFor(startBlockConfig, safeBlock) ==
    IF startBlockConfig # NULL THEN startBlockConfig ELSE safeBlock

FromBlockFor(lastProcessedBlock, startBlock, buffer) ==
    IF lastProcessedBlock > buffer THEN lastProcessedBlock - buffer ELSE startBlock

\* mutant: the last chunk is not cut at safeBlock
ToBlockForUnclamped(cursor, safeBlock, chunkSize) == cursor + chunkSize - 1

ToBlockFor(cursor, safeBlock, chunkSize) ==
    IF cursor + chunkSize - 1 > safeBlock THEN safeBlock ELSE cursor + chunkSize - 1

SafeBlock(latestBlock) == SafeBlockFor(latestBlock, confirmations)

StartBlock(safeBlock) == StartBlockFor(configStartBlock, safeBlock)

FromBlock(lastProcessedBlock, startBlock) == FromBlockFor(lastProcessedBlock, startBlock, reorgBuffer)

ToBlock(cursor, safeBlock) == ToBlockFor(cursor, safeBlock, indexerChunkSize)

NoWrite == [by |-> NULL, fromBlock |-> NULL, toBlock |-> NULL]

IdleRun ==
    [ pc |-> "idle", lockId |-> NULL, safeBlock |-> 0, cursor |-> 0,
      processed |-> 0, outcome |-> "none", error |-> NoError ]

\* a finished invocation: what its caller sees
Returned(processed) ==
    [ IdleRun EXCEPT !.pc = "done", !.outcome = "returned", !.processed = processed ]

Skipped ==
    [ IdleRun EXCEPT !.pc = "done", !.outcome = "skipped" ]

Threw(error) ==
    [ IdleRun EXCEPT !.pc = "done", !.outcome = "threw", !.error = error ]

RunInit ==
    /\ now = 0
    /\ indexingState = NoRow
    /\ runs = [r \in Runs |-> IdleRun]
    /\ lastWrite = NoWrite

\* lines 52-70: read the head, try the lock, skip when it is held
AcquireLock(r) ==
    /\ runs[r].pc = "idle"
    /\ \E latestBlock \in Heads :
        LET safeBlock == SafeBlock(latestBlock)
            startBlock == StartBlock(safeBlock)
            got == acquireIndexingLock(indexingState, r, startBlock, now)
        IN  /\ indexingState' = got.state
            /\ runs' = [runs EXCEPT ![r] =
                  IF got.acquired
                  THEN [@ EXCEPT !.pc = "acquired", !.lockId = r, !.safeBlock = safeBlock,
                                 !.cursor = FromBlock(got.lastProcessedBlock, startBlock)]
                  ELSE Skipped]
    /\ UNCHANGED <<now, lastWrite, storeVars, auxVars>>

\* lines 74-78: nothing to index
NoNewBlocks(r) ==
    /\ runs[r].pc = "acquired"
    /\ runs[r].safeBlock <= runs[r].cursor
    /\ indexingState' = releaseIndexingLock(indexingState, runs[r].lockId, "success", NoError)
    /\ runs' = [runs EXCEPT ![r] = Returned(0)]
    /\ UNCHANGED <<now, lastWrite, storeVars, auxVars>>

\* lines 90-96: the loop test and the call of processRange
BeginRange(r) ==
    /\ runs[r].pc \in {"acquired", "loop"}
    /\ runs[r].pc = "acquired" => runs[r].safeBlock > runs[r].cursor
    /\ runs[r].cursor <= runs[r].safeBlock
    /\ runs' = [runs EXCEPT ![r].pc = "processing"]
    /\ lastWrite' = [by |-> r, fromBlock |-> runs[r].cursor,
                     toBlock |-> ToBlock(runs[r].cursor, runs[r].safeBlock)]
    /\ UNCHANGED <<now, indexingState, storeVars, auxVars>>

\* lines 96-97: processRange returns its log count
EndRange(r) ==
    /\ runs[r].pc = "processing"
    /\ \E n \in LogCounts :
        runs' = [runs EXCEPT ![r].pc = "checkpoint", ![r].processed = @ + n]
    /\ UNCHANGED <<now, indexingState, lastWrite, storeVars, auxVars>>

\* an RPC, decoding or store error inside processRange or refreshDailyStats
StepThrows(r) ==
    /\ runs[r].pc \in {"processing", "stats"}
    /\ \E e \in ThrownValues :
        runs' = [runs EXCEPT ![r].pc = "catch", ![r].error = e]
    /\ UNCHANGED <<now, indexingState, lastWrite, storeVars, auxVars>>

\* line 104, then the loop's increment and test (line 90)
Checkpoint(r) ==
    /\ runs[r].pc = "checkpoint"
    /\ LET res == checkpointIndexingProgress(indexingState, runs[r].lockId,
                                             ToBlock(runs[r].cursor, runs[r].safeBlock), now)
       IN  /\ indexingState' = res.state
           /\ runs' = [runs EXCEPT ![r] =
                 IF res.threw
                 THEN [@ EXCEPT !.pc = "catch", !.error = LockLostError]
                 ELSE [@ EXCEPT !.cursor = @ + indexerChunkSize,
                                !.pc = IF runs[r].cursor + indexerChunkSize <= runs[r].safeBlock
                                       THEN "loop" ELSE "final"]]
    /\ UNCHANGED <<now, lastWrite, storeVars, auxVars>>

\* line 110
FinalCheckpoint(r) ==
    /\ runs[r].pc = "final"
    /\ LET res == checkpointIndexingProgress(indexingState, runs[r].lockId, runs[r].safeBlock, now)
       IN  /\ indexingState' = res.state
           /\ runs' = [runs EXCEPT ![r] =
                 IF res.threw
                 THEN [@ EXCEPT !.pc = "catch", !.error = LockLostError]
                 ELSE [@ EXCEPT !.pc = "stats"]]
    /\ UNCHANGED <<now, lastWrite, storeVars, auxVars>>

\* lines 111-124
RefreshStatsAndRelease(r) ==
    /\ runs[r].pc = "stats"
    /\ indexingState' = releaseIndexingLock(indexingState, runs[r].lockId, "success", NoError)
    /\ runs' = [runs EXCEPT ![r] = Returned(runs[r].processed)]
    /\ UNCHANGED <<now, lastWrite, storeVars, auxVars>>

\* lines 125-128
CatchAndRethrow(r) ==
    /\ runs[r].pc = "catch"
    /\ indexingState' = releaseIndexingLock(indexingState, runs[r].lockId, "failed", runs[r].error)
    /\ runs' = [runs EXCEPT ![r] = Threw(runs[r].error)]
    /\ UNCHANGED <<now, lastWrite, storeVars, auxVars>>

Tick ==
    /\ now < MaxTime
    /\ now' = now + 1
    /\ UNCHANGED <<indexingState, runs, lastWrite, storeVars, auxVars>>

RunNext ==
    \/ Tick
    \/ \E r \in Runs :
        \/ AcquireLock(r)
        \/ NoNewBlocks(r)
        \/ BeginRange(r)
        \/ EndRange(r)
        \/ StepThrows(r)
        \/ Checkpoint(r)
        \/ FinalCheckpoint(r)
        \/ RefreshStatsAndRelease(r)
        \/ CatchAndRethrow(r)


(***************************************************************************)
(* Properties of the run orchestration (SpecRun).                          *)
(***************************************************************************)
\* the lock row is held by a token whose expiry has not passed
LockLive ==
    /\ indexingState.exists
    /\ indexingState.lockExpiresAt # NULL
    /\ ~(indexingState.lockExpiresAt < now)

\* the positions between a successful acquisition and the release
PassPcs == {"acquired", "processing", "checkpoint", "loop", "final", "stats", "catch"}

\* C1: an invocation that tries the lock while another holder's lock is live
\* returns at once with processed = 0 and no error, and changes neither the
\* cursor row nor the store; one that finds the lock absent or expired
\* acquires it, so of two overlapping invocations exactly one works.
LockExclusivity ==
    [][\A r \in Runs :
        (runs[r].pc = "idle" /\ runs'[r].pc # "idle") =>
            IF LockLive
            THEN /\ runs'[r].outcome = "skipped"
                 /\ runs'[r].processed = 0
                 /\ runs'[r].error = NoError
                 /\ indexingState' = indexingState
                 /\ lastWrite' = lastWrite
                 /\ \A q \in Runs \ {r} : runs'[q] = runs[q]
            ELSE /\ runs'[r].pc = "acquired"
                 /\ indexingState'.lockId = r
                 /\ \A q \in Runs \ {r} : indexingState.lockId = q => ~LockLive]_runVars

\* C1 witness: one invocation was skipped while another is processing a range
LockExclusivityWitness ==
    \E r, q \in Runs :
        /\ runs[r].outcome = "skipped"
        /\ runs[q].pc = "processing"
        /\ indexingState.lockId = q
        /\ LockLive

\* C2: never two invocations inside processRange at once
SingleWriter ==
    \A r, q \in Runs :
        r # q => ~(runs[r].pc = "processing" /\ runs[q].pc = "processing")

\* C7: a checkpoint that finds another token in the row writes nothing and
\* throws; the invocation then only releases and ends, it starts no range.
LostLeadershipAbort ==
    [][\A r \in Runs :
        /\ ( /\ runs[r].pc \in {"checkpoint", "final"}
             /\ runs'[r] # runs[r]
             /\ indexingState.lockId # runs[r].lockId )
           => ( /\ indexingState' = indexingState
                /\ runs'[r].pc = "catch"
                /\ runs'[r].error = LockLostError )
        /\ runs[r].pc = "catch" => runs'[r].pc \in {"catch", "done"}
        /\ runs[r].pc = "done" => runs'[r].pc = "done"]_runVars

\* C7 witness: an invocation caught the lock-lost error while another token is stored
LostLeadershipWitness ==
    \E r \in Runs :
        /\ runs[r].pc = "catch"
        /\ runs[r].error = LockLostError
        /\ indexingState.lockId \in Runs \ {r}
        /\ indexingState.lastProcessedBlock = 0

\* C8: a checkpoint made after the invocation's own expiry has passed throws
ExpiredCheckpointFails ==
    [][\A r \in Runs :
        ( /\ runs[r].pc \in {"checkpoint", "final"}
          /\ runs'[r] # runs[r]
          /\ indexingState.lockId = runs[r].lockId
          /\ indexingState.lockExpiresAt # NULL
          /\ indexingState.lockExpiresAt < now )
        => runs'[r].pc = "catch"]_runVars

OriginalLength(error) ==
    IF error.isError
    THEN (IF error.messageLen # 0 THEN error.messageLen ELSE error.nameLen)
    ELSE error.stringLen

\* C9: an invocation that ends while its token is still in the row clears token
\* and expiry; it records success when it returns, and failed with the message
\* cut to MaxErrorLength when a step threw, and then throws that same error.
ReleaseOnEnd ==
    [][\A r \in Runs :
        ( /\ runs[r].pc \in {"acquired", "stats", "catch"}
          /\ runs'[r].pc = "done"
          /\ indexingState.lockId = runs[r].lockId )
        => /\ indexingState'.lockId = NULL
           /\ indexingState'.lockExpiresAt = NULL
           /\ IF runs[r].pc = "catch"
              THEN /\ indexingState'.lastRunStatus = "failed"
                   /\ indexingState'.lastRunError <= MaxErrorLength
                   /\ indexingState'.lastRunError =
                        (IF OriginalLength(runs[r].error) > MaxErrorLength
                         THEN MaxErrorLength ELSE OriginalLength(runs[r].error))
                   /\ runs'[r].outcome = "threw"
                   /\ runs'[r].error = runs[r].error
              ELSE /\ indexingState'.lastRunStatus = "success"
                   /\ indexingState'.lastRunError = NULL
                   /\ runs'[r].outcome = "returned"]_runVars

\* C9 witness: a failed run released the lock and left a truncated message
ReleaseOnEndWitness ==
    \E r \in Runs :
        /\ runs[r].outcome = "threw"
        /\ OriginalLength(runs[r].error) > MaxErrorLength
        /\ indexingState.lockId = NULL
        /\ indexingState.lockExpiresAt = NULL
        /\ indexingState.lastRunStatus = "failed"
        /\ indexingState.lastRunError = MaxErrorLength

\* another invocation's token is in the row: the lock of r was taken over
TakenOver(r) ==
    /\ runs[r].pc \in PassPcs
    /\ indexingState.exists
    /\ indexingState.lockId \in Runs \ {r}

\* C33 (no disturbance after takeover): once another invocation's token is
\* in the row, no step of the invocation that lost the lock changes the row:
\* its checkpoint matches no row and throws, its release as failed matches
\* no row, so the holder's token, expiry, last-run status and error and
\* lastProcessedBlock stay as they are.
TakeoverHarmless ==
    [][\A r \in Runs :
        (TakenOver(r) /\ runs'[r] # runs[r]) =>
            /\ indexingState' = indexingState
            /\ runs[r].pc \in {"checkpoint", "final"} =>
                   (runs'[r].pc = "catch" /\ runs'[r].error = LockLostError)
            /\ runs[r].pc = "catch" => runs'[r].outcome = "threw"]_runVars

\* C33 witness: an invocation ended with the lock-lost error, released as
\* failed, while the invocation that took the lock over still holds it as
\* running
TakeoverHarmlessWitness ==
    \E r, q \in Runs :
        /\ r # q
        /\ runs[r].outcome = "threw"
        /\ runs[r].error = LockLostError
        /\ runs[q].pc \in PassPcs
        /\ indexingState.lockId = q
        /\ indexingState.lockExpiresAt # NULL
        /\ indexingState.lastRunStatus = "running"

(***************************************************************************)
(* Part II. The store: Batch and BatchProof rows, and the chain's logs.    *)
(***************************************************************************)
MaxBatch == 2
MaxBlock == 2
MaxLogs == 2
MaxReorgs == 1
MaxPasses == 3

BatchIds == 1..MaxBatch
Blocks == 1..MaxBlock

\* SQL NULL in a text column
NONE == "null"
ZERO_ADDRESS == "0x0"

TransitionA == [parentHash |-> "parentA", blockHash |-> "hashA", stateRoot |-> "rootA"]
TransitionB == [parentHash |-> "parentB", blockHash |-> "hashB", stateRoot |-> "rootB"]
BlockHashes == {"hashA", "hashB"}
ProofTxHashes == {"txA", "txB", "txC"}

\* the verifier a proof transaction was sent to, and the transition it proves
VerifierOf(tx) == IF tx = "txB" THEN "0xv2" ELSE "0xv1"
TransitionOf(tx) == IF tx = "txB" THEN TransitionB ELSE TransitionA

\* classifier.classifyProof for the two verifiers of the model
classifyProof(verifier) ==
    IF verifier = "0xv1"
    THEN [proofSystems |-> <<"SP1">>, teeVerifiers |-> <<>>]
    ELSE [proofSystems |-> <<"TEE">>, teeVerifiers |-> <<"SGX_GETH">>]

\* block.timestamp of block bn, in seconds
ChainTimestamp(bn) == bn

\* new Date(Number(block.timestamp) * 1000)
getBlockTimestamp(bn) == ChainTimestamp(bn) * 1000

\* new Date(): later than every indexed block
DateNow == (MaxBlock + 1) * 1000

Log(kind, bn, tx, ids, trs, hash, verifier, proposedAt) ==
    [ kind |-> kind, blockNumber |-> bn, transactionHash |-> tx, batchIds |-> ids,
      transitions |-> trs, blockHash |-> hash, verifier |-> verifier, proposedAt |-> proposedAt ]

ProposedLogs ==
    { Log("BatchProposed", bn, "txP", <<id>>, <<>>, NONE, NONE, ChainTimestamp(bn)) :
        bn \in Blocks, id \in BatchIds }
ProvedLogs ==
    { Log("BatchesProved", bn, tx, <<id>>, <<TransitionOf(tx)>>, NONE, VerifierOf(tx), NULL) :
        bn \in Blocks, tx \in ProofTxHashes, id \in BatchIds }
VerifiedLogs ==
    { Log("BatchesVerified", bn, "txV", <<id>>, <<>>, h, NONE, NULL) :
        bn \in Blocks, id \in BatchIds, h \in BlockHashes }
ConflictingLogs ==
    { Log("ConflictingProof", bn, "txA", <<id>>, <<>>, NONE, NONE, NULL) :
        bn \in Blocks, id \in BatchIds }
Logs == ProposedLogs \cup ProvedLogs \cup VerifiedLogs \cup ConflictingLogs

\* the Batch columns with their database defaults; exists = FALSE is "no row"
NoBatch ==
    [ exists |-> FALSE,
      proposedAt |-> NULL, proposedBlock |-> NULL, proposedTxHash |-> NONE, proposer |-> NONE,
      status |-> NONE, isLegacy |-> FALSE, isContested |-> FALSE,
      proofTxHash |-> NONE, verifierAddress |-> NONE, proofSystems |-> <<>>, teeVerifiers |-> <<>>,
      provenAt |-> NULL, provenBlock |-> NULL,
      transitionParentHash |-> NONE, transitionBlockHash |-> NONE, transitionStateRoot |-> NONE,
      verifiedAt |-> NULL, verifiedBlock |-> NULL, verifiedTxHash |-> NONE ]

EmptyStore == [batches |-> [id \in BatchIds |-> NoBatch], proofs |-> {}, lastVerifiedBatchId |-> 0]

InRange(x, from, to) == x # NULL /\ from <= x /\ x <= to

\* the proof columns shared by Batch and BatchProof
ProofData(tx, verifier, systems, tee, payload) ==
    [ proofTxHash |-> tx, verifierAddress |-> verifier, proofSystems |-> systems,
      teeVerifiers |-> tee, provenAt |-> payload.provenAt, provenBlock |-> payload.provenBlock,
      transitionParentHash |-> payload.transitionParentHash,
      transitionBlockHash |-> payload.transitionBlockHash,
      transitionStateRoot |-> payload.transitionStateRoot ]

ProofDataOfRow(row) ==
    [ proofTxHash |-> row.proofTxHash, verifierAddress |-> row.verifierAddress,
      proofSystems |-> row.proofSystems, teeVerifiers |-> row.teeVerifiers,
      provenAt |-> row.provenAt, provenBlock |-> row.provenBlock,
      transitionParentHash |-> row.transitionParentHash,
      transitionBlockHash |-> row.transitionBlockHash,
      transitionStateRoot |-> row.transitionStateRoot ]

\* a Batch row with the nine proof columns overwritten
WithProof(b, d) ==
    [ b EXCEPT !.proofTxHash = d.proofTxHash, !.verifierAddress = d.verifierAddress,
               !.proofSystems = d.proofSystems, !.teeVerifiers = d.teeVerifiers,
               !.provenAt = d.provenAt, !.provenBlock = d.provenBlock,
               !.transitionParentHash = d.transitionParentHash,
               !.transitionBlockHash = d.transitionBlockHash,
               !.transitionStateRoot = d.transitionStateRoot ]

NoProofData ==
    [ proofTxHash |-> NONE, verifierAddress |-> NONE, proofSystems |-> <<>>, teeVerifiers |-> <<>>,
      provenAt |-> NULL, provenBlock |-> NULL, transitionParentHash |-> NONE,
      transitionBlockHash |-> NONE, transitionStateRoot |-> NONE ]

BatchProofRow(batchId, d, isVerified) ==
    [ batchId |-> batchId, proofTxHash |-> d.proofTxHash, verifierAddress |-> d.verifierAddress,
      proofSystems |-> d.proofSystems, teeVerifiers |-> d.teeVerifiers,
      provenAt |-> d.provenAt, provenBlock |-> d.provenBlock,
      transitionParentHash |-> d.transitionParentHash,
      transitionBlockHash |-> d.transitionBlockHash,
      transitionStateRoot |-> d.transitionStateRoot, isVerified |-> isVerified ]

ProofsOf(st, batchId) == { p \in st.proofs : p.batchId = batchId }

(***************************************************************************)
(* reconcileBatch: the outcomes the orderBy provenAt asc allows (rows with  *)
(* equal provenAt come back in an unspecified order).                      *)
(***************************************************************************)
SelectedProofs(rows) ==
    LET flagged == { p \in rows : p.isVerified }
        pool == IF flagged # {} THEN flagged ELSE rows
    IN  { p \in pool : \A q \in pool : p.provenAt <= q.provenAt }

\* mutant: the status is left as the rollback's bulk updates set it
reconcileBatchKeepsStatus(st, batchId) ==
    LET batch == st.batches[batchId]
        rows == ProofsOf(st, batchId)
    IN  IF ~batch.exists THEN {st}
        ELSE IF rows = {}
        THEN { [st EXCEPT !.batches[batchId] = WithProof(batch, NoProofData)] }
        ELSE { [st EXCEPT !.batches[batchId] = WithProof(batch, ProofDataOfRow(sel))]
               : sel \in SelectedProofs(rows) }

reconcileBatch(st, batchId) ==
    LET batch == st.batches[batchId]
        rows == ProofsOf(st, batchId)
    IN  IF ~batch.exists THEN {st}
        ELSE IF rows = {}
        THEN { [st EXCEPT !.batches[batchId] =
                  [WithProof(batch, NoProofData) EXCEPT
                      !.status = IF batch.verifiedAt # NULL THEN "verified" ELSE "proposed"]] }
        ELSE { [st EXCEPT !.batches[batchId] =
                  [WithProof(batch, ProofDataOfRow(sel)) EXCEPT
                      !.status = IF batch.verifiedAt # NULL THEN "verified" ELSE "proven"]]
               : sel \in SelectedProofs(rows) }

RECURSIVE ReconcileAll(_, _)
ReconcileAll(states, ids) ==
    IF ids = {} THEN states
    ELSE LET id == CHOOSE x \in ids : TRUE
         IN  ReconcileAll(UNION { reconcileBatch(st, id) : st \in states }, ids \ {id})

(***************************************************************************)
(* rollbackRange. `writes` is the number of its bulk writes that were made  *)
(* (3 and the reconciles when the call completes; fewer when the process   *)
(* dies inside it).                                                        *)
(***************************************************************************)
RollbackWrites == 4

\* mutant: the BatchProof rows of the range are not deleted
rollbackRangeKeepProofs(st, from, to, writes) ==
    LET proofsInRange == { p \in st.proofs : InRange(p.provenBlock, from, to) }
        verifiedInRange == { id \in BatchIds : st.batches[id].exists
                                /\ InRange(st.batches[id].verifiedBlock, from, to) }
        affectedBatchIds == { p.batchId : p \in proofsInRange } \cup verifiedInRange
        s2 == IF writes >= 2
              THEN [st EXCEPT !.batches = [id \in BatchIds |->
                      IF st.batches[id].exists /\ InRange(st.batches[id].provenBlock, from, to)
                      THEN [WithProof(st.batches[id], NoProofData) EXCEPT !.status = "proposed"]
                      ELSE st.batches[id]]]
              ELSE st
        s3 == IF writes >= 3
              THEN [s2 EXCEPT !.batches = [id \in BatchIds |->
                      IF s2.batches[id].exists /\ InRange(s2.batches[id].verifiedBlock, from, to)
                      THEN [s2.batches[id] EXCEPT !.verifiedAt = NULL, !.verifiedBlock = NULL,
                                                  !.verifiedTxHash = NONE]
                      ELSE s2.batches[id]]]
              ELSE s2
    IN  IF writes >= RollbackWrites THEN ReconcileAll({s3}, affectedBatchIds) ELSE {s3}

rollbackRange(st, from, to, writes) ==
    LET proofsInRange == { p \in st.proofs : InRange(p.provenBlock, from, to) }
        verifiedInRange == { id \in BatchIds : st.batches[id].exists
                                /\ InRange(st.batches[id].verifiedBlock, from, to) }
        affectedBatchIds == { p.batchId : p \in proofsInRange } \cup verifiedInRange
        s1 == IF writes >= 1 THEN [st EXCEPT !.proofs = st.proofs \ proofsInRange] ELSE st
        s2 == IF writes >= 2
              THEN [s1 EXCEPT !.batches = [id \in BatchIds |->
                      IF s1.batches[id].exists /\ InRange(s1.batches[id].provenBlock, from, to)
                      THEN [WithProof(s1.batches[id], NoProofData) EXCEPT !.status = "proposed"]
                      ELSE s1.batches[id]]]
              ELSE s1
        s3 == IF writes >= 3
              THEN [s2 EXCEPT !.batches = [id \in BatchIds |->
                      IF s2.batches[id].exists /\ InRange(s2.batches[id].verifiedBlock, from, to)
                      THEN [s2.batches[id] EXCEPT !.verifiedAt = NULL, !.verifiedBlock = NULL,
                                                  !.verifiedTxHash = NONE]
                      ELSE s2.batches[id]]]
              ELSE s2
    IN  IF writes >= RollbackWrites THEN ReconcileAll({s3}, affectedBatchIds) ELSE {s3}

\* resetVerificationCursor
resetVerificationCursor(st, from) ==
    LET ids == { id \in BatchIds : st.batches[id].exists /\ st.batches[id].verifiedBlock # NULL
                                    /\ st.batches[id].verifiedBlock < from }
    IN  [st EXCEPT !.lastVerifiedBatchId =
            IF ids = {} THEN 0 ELSE CHOOSE id \in ids : \A other \in ids : other <= id]

(***************************************************************************)
(* The event handlers.                                                     *)
(***************************************************************************)
\* mutant: the upsert replaces the row by the create branch's columns, keeping
\* the status
handleBatchProposedClearsFlag(st, log) ==
    LET batchId == log.batchIds[1]
        proposedAt == log.proposedAt * 1000
        blockTimestamp == getBlockTimestamp(log.blockNumber)
        normalizedProposedAt == IF proposedAt > blockTimestamp THEN blockTimestamp ELSE proposedAt
        old == st.batches[batchId]
    IN  [st EXCEPT !.batches[batchId] =
            [NoBatch EXCEPT !.exists = TRUE, !.proposedAt = normalizedProposedAt,
                            !.proposedBlock = log.blockNumber,
                            !.proposedTxHash = log.transactionHash,
                            !.proposer = "0xproposer",
                            !.status = IF old.exists THEN old.status ELSE "proposed",
                            !.isLegacy = FALSE]]

\* mutant: the event's timestamp is stored as received
handleBatchProposedAsReceived(st, log) ==
    LET batchId == log.batchIds[1]
        proposedAt == log.proposedAt * 1000
        old == st.batches[batchId]
    IN  [st EXCEPT !.batches[batchId] =
            IF ~old.exists
            THEN [NoBatch EXCEPT !.exists = TRUE, !.proposedAt = proposedAt,
                                 !.proposedBlock = log.blockNumber,
                                 !.proposedTxHash = log.transactionHash,
                                 !.proposer = "0xproposer", !.status = "proposed",
                                 !.isLegacy = FALSE]
            ELSE [old EXCEPT !.proposedAt = proposedAt,
                             !.proposedBlock = log.blockNumber,
                             !.proposer = "0xproposer",
                             !.proposedTxHash = log.transactionHash,
                             !.isLegacy = FALSE]]

\* handleBatchProposed: batch.upsert. info.proposedIn is the block of the log,
\* and the log carries its transaction hash.
handleBatchProposed(st, log) ==
    LET batchId == log.batchIds[1]
        proposedAt == log.proposedAt * 1000
        blockTimestamp == getBlockTimestamp(log.blockNumber)
        normalizedProposedAt == IF proposedAt > blockTimestamp THEN blockTimestamp ELSE proposedAt
        old == st.batches[batchId]
    IN  [st EXCEPT !.batches[batchId] =
            IF ~old.exists
            THEN [NoBatch EXCEPT !.exists = TRUE, !.proposedAt = normalizedProposedAt,
                                 !.proposedBlock = log.blockNumber,
                                 !.proposedTxHash = log.transactionHash,
                                 !.proposer = "0xproposer", !.status = "proposed",
                                 !.isLegacy = FALSE]
            ELSE [old EXCEPT !.proposedAt = normalizedProposedAt,
                             !.proposedBlock = log.blockNumber,
                             !.proposer = "0xproposer",
                             !.proposedTxHash = log.transactionHash,
                             !.isLegacy = FALSE]]

\* mutant: the latest proof replaces an earlier one
applyProofToBatchLatestWins(st, batchId, d) ==
    LET existing == st.batches[batchId]
    IN  IF ~existing.exists
        THEN [st |-> [st EXCEPT !.batches[batchId] =
                        [WithProof(NoBatch, d) EXCEPT !.exists = TRUE, !.proposedAt = d.provenAt,
                             !.proposedBlock = d.provenBlock, !.proposer = ZERO_ADDRESS,
                             !.status = "proven", !.isLegacy = FALSE]],
              matchesVerified |-> FALSE]
        ELSE IF existing.status = "verified"
        THEN [st |-> st, matchesVerified |-> existing.transitionBlockHash = d.transitionBlockHash]
        ELSE [st |-> [st EXCEPT !.batches[batchId] =
                        [WithProof(existing, d) EXCEPT !.status = "proven", !.isLegacy = FALSE]],
              matchesVerified |-> FALSE]

\* applyProofToBatch: the Batch row after the proof, and matchesVerified
applyProofToBatch(st, batchId, d) ==
    LET existing == st.batches[batchId]
        matchesVerified == existing.status = "verified"
                           /\ existing.transitionBlockHash = d.transitionBlockHash
        shouldUpdateProof == existing.provenAt = NULL \/ d.provenAt < existing.provenAt
    IN  IF ~existing.exists
        THEN [st |-> [st EXCEPT !.batches[batchId] =
                        [WithProof(NoBatch, d) EXCEPT !.exists = TRUE, !.proposedAt = d.provenAt,
                             !.proposedBlock = d.provenBlock, !.proposer = ZERO_ADDRESS,
                             !.status = "proven", !.isLegacy = FALSE]],
              matchesVerified |-> FALSE]
        ELSE IF existing.status = "verified"
        THEN [st |-> IF matchesVerified /\ existing.proofTxHash = NONE
                     THEN [st EXCEPT !.batches[batchId] =
                              [WithProof(existing, d) EXCEPT !.isLegacy = FALSE]]
                     ELSE st,
              matchesVerified |-> matchesVerified]
        ELSE IF ~shouldUpdateProof
        THEN [st |-> st, matchesVerified |-> FALSE]
        ELSE [st |-> [st EXCEPT !.batches[batchId] =
                        [WithProof(existing, d) EXCEPT !.status = "proven", !.isLegacy = FALSE]],
              matchesVerified |-> FALSE]

\* batchProof.upsert on the key (batchId, proofTxHash)
upsertBatchProof(st, batchId, d, matchesVerified) ==
    LET found == { p \in st.proofs : p.batchId = batchId /\ p.proofTxHash = d.proofTxHash }
    IN  IF found = {}
        THEN [st EXCEPT !.proofs = @ \cup {BatchProofRow(batchId, d, matchesVerified)}]
        ELSE [st EXCEPT !.proofs = (@ \ found) \cup
                { [ p EXCEPT !.proofSystems = d.proofSystems, !.teeVerifiers = d.teeVerifiers,
                             !.provenAt = d.provenAt, !.provenBlock = d.provenBlock,
                             !.transitionParentHash = d.transitionParentHash,
                             !.transitionBlockHash = d.transitionBlockHash,
                             !.transitionStateRoot = d.transitionStateRoot,
                             !.isVerified = IF matchesVerified THEN TRUE ELSE p.isVerified ]
                  : p \in found }]

\* the proof columns handleBatchesProved derives from the log for entry i
ProofDataOfLog(log, i) ==
    LET cls == classifyProof(log.verifier)
    IN  ProofData(log.transactionHash, log.verifier, cls.proofSystems, cls.teeVerifiers,
                  [ provenAt |-> getBlockTimestamp(log.blockNumber),
                    provenBlock |-> log.blockNumber,
                    transitionParentHash |-> log.transitions[i].parentHash,
                    transitionBlockHash |-> log.transitions[i].blockHash,
                    transitionStateRoot |-> log.transitions[i].stateRoot ])

\* handleBatchesProved from entry i on. `writes` is the number of store calls
\* (applyProofToBatch, batchProof.upsert) made before the process dies.
RECURSIVE ProvedFrom(_, _, _, _)
ProvedFrom(st, log, i, writes) ==
    IF i > Len(log.batchIds) \/ writes <= 0 THEN st
    ELSE LET d == ProofDataOfLog(log, i)
             applied == applyProofToBatch(st, log.batchIds[i], d)
         IN  IF writes = 1 THEN applied.st
             ELSE ProvedFrom(upsertBatchProof(applied.st, log.batchIds[i], d, applied.matchesVerified),
                             log, i + 1, writes - 2)

handleBatchesProved(st, log) == ProvedFrom(st, log, 1, 2 * Len(log.batchIds))

\* handleBatchesVerified; the outcomes findFirst (no orderBy) allows.
\* `writes` is the number of its store writes that were made.
VerifiedWrites == 5

\* mutant: no event is taken for a duplicate or stale one
StaleEventNever(newLast, prevLast) == FALSE

\* if (newLast <= prevLast) return
StaleEvent(newLast, prevLast) == newLast <= prevLast

handleBatchesVerifiedUpTo(st, log, writes) ==
    LET newLast == log.batchIds[1]
        blockHash == log.blockHash
        prevLast == st.lastVerifiedBatchId
        verifiedAt == getBlockTimestamp(log.blockNumber)
        verifiedBlock == log.blockNumber
        existing == st.batches[newLast].exists
        s1 == IF ~existing /\ writes >= 1
              THEN [st EXCEPT !.batches[newLast] =
                      [NoBatch EXCEPT !.exists = TRUE, !.proposedAt = verifiedAt,
                           !.proposedBlock = verifiedBlock, !.proposer = ZERO_ADDRESS,
                           !.status = "verified", !.isLegacy = TRUE, !.verifiedAt = verifiedAt,
                           !.verifiedBlock = verifiedBlock,
                           !.verifiedTxHash = log.transactionHash,
                           !.transitionBlockHash = blockHash]]
              ELSE st
        s2 == IF writes >= 2
              THEN [s1 EXCEPT !.batches = [id \in BatchIds |->
                      IF s1.batches[id].exists /\ prevLast + 1 <= id /\ id <= newLast
                      THEN [s1.batches[id] EXCEPT !.status = "verified", !.verifiedAt = verifiedAt,
                                !.verifiedBlock = verifiedBlock,
                                !.verifiedTxHash = log.transactionHash]
                      ELSE s1.batches[id]]]
              ELSE s1
        s3 == IF existing /\ writes >= 3
              THEN [s2 EXCEPT !.batches[newLast].transitionBlockHash = blockHash]
              ELSE s2
        matching == { p \in s3.proofs : p.batchId = newLast /\ p.transitionBlockHash = blockHash }
        Flag(proof) ==
            LET s4 == IF writes >= 4
                      THEN [s3 EXCEPT !.proofs = (@ \ {proof}) \cup {[proof EXCEPT !.isVerified = TRUE]}]
                      ELSE s3
            IN  IF writes >= 5
                THEN [s4 EXCEPT !.batches[newLast] =
                        [WithProof(@, ProofDataOfRow(proof)) EXCEPT !.isLegacy = FALSE]]
                ELSE s4
    IN  IF StaleEvent(newLast, prevLast) THEN {st}
        ELSE IF matching = {}
        THEN { IF writes >= VerifiedWrites THEN [s3 EXCEPT !.lastVerifiedBatchId = newLast] ELSE s3 }
        ELSE { IF writes >= VerifiedWrites
               THEN [Flag(proof) EXCEPT !.lastVerifiedBatchId = newLast]
               ELSE Flag(proof) : proof \in matching }

handleBatchesVerified(st, log) == handleBatchesVerifiedUpTo(st, log, VerifiedWrites)

\* mutant: the upsert's update branch also writes the create branch's status
handleConflictingProofResetsStatus(st, log) ==
    LET batchId == log.batchIds[1]
        old == st.batches[batchId]
    IN  [st EXCEPT !.batches[batchId] =
            IF ~old.exists
            THEN [NoBatch EXCEPT !.exists = TRUE, !.proposedAt = DateNow, !.proposedBlock = 0,
                                 !.proposer = ZERO_ADDRESS, !.status = "proposed",
                                 !.isContested = TRUE]
            ELSE [old EXCEPT !.isContested = TRUE, !.status = "proposed"]]

\* mutant: the upsert's update branch writes the create branch's proposal
\* columns as well
handleConflictingProofOverwrites(st, log) ==
    LET batchId == log.batchIds[1]
        old == st.batches[batchId]
    IN  [st EXCEPT !.batches[batchId] =
            [(IF old.exists THEN old ELSE [NoBatch EXCEPT !.status = "proposed"])
                EXCEPT !.exists = TRUE, !.proposedAt = DateNow, !.proposedBlock = 0,
                       !.proposer = ZERO_ADDRESS, !.isContested = TRUE]]

\* handleConflictingProof: batch.upsert
handleConflictingProof(st, log) ==
    LET batchId == log.batchIds[1]
        old == st.batches[batchId]
    IN  [st EXCEPT !.batches[batchId] =
            IF ~old.exists
            THEN [NoBatch EXCEPT !.exists = TRUE, !.proposedAt = DateNow, !.proposedBlock = 0,
                                 !.proposer = ZERO_ADDRESS, !.status = "proposed",
                                 !.isContested = TRUE]
            ELSE [old EXCEPT !.isContested = TRUE]]

(***************************************************************************)
(* processRange, one store call sequence at a time.                        *)
(***************************************************************************)
Store == [batches |-> batches, proofs |-> proofs, lastVerifiedBatchId |-> lastVerifiedBatchId]

SetStore(st) ==
    /\ batches' = st.batches
    /\ proofs' = st.proofs
    /\ lastVerifiedBatchId' = st.lastVerifiedBatchId

\* the rows of the two tables (the cursor is process memory, not a row)
Rows(st) == [batches |-> st.batches, proofs |-> st.proofs]

\* getLogs for one event over [from, to], in chain order
fetchLogs(logs, kind, from, to) ==
    SelectSeq(logs, LAMBDA log : log.kind = kind /\ from <= log.blockNumber /\ log.blockNumber <= to)

\* the order in which processRange hands the logs of [from, to] to the handlers
WorkList(logs, from, to) ==
    fetchLogs(logs, "BatchProposed", from, to) \o fetchLogs(logs, "BatchesProved", from, to)
        \o fetchLogs(logs, "BatchesVerified", from, to)
        \o fetchLogs(logs, "ConflictingProof", from, to)

\* the stores one handler call can leave
HandleLog(st, log) ==
    CASE log.kind = "BatchProposed" -> {handleBatchProposed(st, log)}
      [] log.kind = "BatchesProved" -> {handleBatchesProved(st, log)}
      [] log.kind = "BatchesVerified" -> handleBatchesVerified(st, log)
      [] log.kind = "ConflictingProof" -> {handleConflictingProof(st, log)}

\* the stores a handler call leaves when the process dies between two of its writes
HandleLogPartial(st, log) ==
    CASE log.kind = "BatchesProved" ->
            { ProvedFrom(st, log, 1, w) : w \in 1..(2 * Len(log.batchIds) - 1) }
      [] log.kind = "BatchesVerified" ->
            UNION { handleBatchesVerifiedUpTo(st, log, w) : w \in 1..(VerifiedWrites - 1) }
      [] OTHER -> {}

\* rollbackRange, then resetVerificationCursor
BeginOutcomes(st, from, to) ==
    { resetVerificationCursor(s, from) : s \in rollbackRange(st, from, to, RollbackWrites) }

RECURSIVE HandleAll(_, _, _)
HandleAll(states, work, i) ==
    IF i > Len(work) THEN states
    ELSE HandleAll(UNION { HandleLog(st, work[i]) : st \in states }, work, i + 1)

\* the stores an uninterrupted processRange(from, to) can leave
processRange(st, logs, from, to) ==
    HandleAll(BeginOutcomes(st, from, to), WorkList(logs, from, to), 1)

Ranges == { r \in Blocks \X Blocks : r[1] <= r[2] }

IdlePass == [active |-> FALSE, from |-> NULL, to |-> NULL, next |-> NULL]
NoHist == [kind |-> "none", from |-> NULL, to |-> NULL, start |-> Rows(EmptyStore)]

Work == WorkList(chain, pass.from, pass.to)
RangeDone == pass.active /\ pass.next > Len(Work)

StoreInit ==
    /\ chain = <<>>
    /\ batches = EmptyStore.batches
    /\ proofs = EmptyStore.proofs
    /\ lastVerifiedBatchId = EmptyStore.lastVerifiedBatchId
    /\ pass = IdlePass
    /\ hist = NoHist
    /\ reorgs = 0
    /\ passes = 0
    /\ verifiedWith = [id \in BatchIds |-> NONE]

\* what the history records when a pass over [from, to] starts: a pass that
\* repeats the completed previous one is a replay, one that repeats a crashed
\* one is its recovery and keeps the store the crashed pass started from
HistAtBegin(from, to) ==
    IF hist.kind = "crashed" /\ hist.from = from /\ hist.to = to
    THEN [hist EXCEPT !.kind = "recovering"]
    ELSE IF hist.kind = "completed" /\ hist.from = from /\ hist.to = to
    THEN [kind |-> "replaying", from |-> from, to |-> to, start |-> Rows(Store)]
    ELSE [kind |-> "running", from |-> from, to |-> to, start |-> Rows(Store)]

Crashed == [hist EXCEPT !.kind = "crashed"]

\* a fresh run starts at or before the range of the run that died (its first
\* block is lastProcessedBlock + 1 - reorgBuffer, and the checkpoint was not moved)
MayBegin(from, to) ==
    /\ ~pass.active
    /\ passes < MaxPasses
    /\ hist.kind = "crashed" => (from <= hist.from /\ hist.to <= to)

\* a proof transaction is mined once: its logs are in one block and name
\* different batches
OneBlockPerTransaction(logs) ==
    \A i, j \in 1..Len(logs) :
        (i # j /\ logs[i].kind = "BatchesProved" /\ logs[j].kind = "BatchesProved"
             /\ logs[i].transactionHash = logs[j].transactionHash)
        => (logs[i].blockNumber = logs[j].blockNumber /\ logs[i].batchIds # logs[j].batchIds)

\* a block is mined: one more log on the canonical chain
Emit(log) ==
    /\ ~pass.active
    /\ hist.kind # "crashed"
    /\ Len(chain) < MaxLogs
    /\ reorgs = 0    \* the blocks mined after a reorganisation are beyond the model
    /\ Len(chain) > 0 => chain[Len(chain)].blockNumber <= log.blockNumber
    /\ OneBlockPerTransaction(Append(chain, log))
    /\ chain' = Append(chain, log)
    /\ hist' = NoHist
    /\ UNCHANGED <<batches, proofs, lastVerifiedBatchId, pass, reorgs, passes, verifiedWith>>
    /\ UNCHANGED <<runVars, auxVars>>

\* the logs a reorganisation can put in the place of `log`: the same event for
\* the same batch in the same block, with another transaction or hash
Replacements(log) ==
    { other \in Logs : /\ other.kind = log.kind
                       /\ other.blockNumber = log.blockNumber
                       /\ other.batchIds = log.batchIds
                       /\ other # log }

\* a reorganisation replaces the i-th log; the logs after it are included again
ReorgReplace(i, log) ==
    /\ ~pass.active
    /\ hist.kind # "crashed"
    /\ reorgs < MaxReorgs
    /\ passes > 0
    /\ i \in 1..Len(chain)
    /\ log \in Replacements(chain[i])
    /\ reorgs' = reorgs + 1
    /\ OneBlockPerTransaction([chain EXCEPT ![i] = log])
    /\ chain' = [chain EXCEPT ![i] = log]
    /\ hist' = NoHist
    /\ UNCHANGED <<batches, proofs, lastVerifiedBatchId, pass, passes, verifiedWith>>
    /\ UNCHANGED <<runVars, auxVars>>

\* a reorganisation drops the i-th log; the logs after it are included again
ReorgDrop(i) ==
    /\ ~pass.active
    /\ hist.kind # "crashed"
    /\ reorgs < MaxReorgs
    /\ passes > 0
    /\ i \in 1..Len(chain)
    /\ reorgs' = reorgs + 1
    /\ chain' = SubSeq(chain, 1, i - 1) \o SubSeq(chain, i + 1, Len(chain))
    /\ hist' = NoHist
    /\ UNCHANGED <<batches, proofs, lastVerifiedBatchId, pass, passes, verifiedWith>>
    /\ UNCHANGED <<runVars, auxVars>>

\* verifiedWith after rollbackRange(from, to) made `writes` of its writes: its
\* third write clears the verification of the rows verified in the range
UnverifiedBy(from, to, writes) ==
    [id \in BatchIds |->
        IF writes >= 3 /\ batches[id].exists /\ InRange(batches[id].verifiedBlock, from, to)
        THEN NONE ELSE verifiedWith[id]]

\* verifiedWith after the handler of `log` wrote: a BatchesVerified event
\* beyond the cursor verifies its batchId with its blockHash
VerifiedBy(log) ==
    IF /\ log.kind = "BatchesVerified"
       /\ log.batchIds[1] > lastVerifiedBatchId
       /\ batches'[log.batchIds[1]].status = "verified"
    THEN [verifiedWith EXCEPT ![log.batchIds[1]] = log.blockHash]
    ELSE verifiedWith

\* processRange(from, to) starts: rollbackRange and resetVerificationCursor
StartRange(from, to) ==
    /\ MayBegin(from, to)
    /\ \E st \in BeginOutcomes(Store, from, to) : SetStore(st)
    /\ pass' = [active |-> TRUE, from |-> from, to |-> to, next |-> 1]
    /\ hist' = HistAtBegin(from, to)
    /\ passes' = passes + 1
    /\ verifiedWith' = UnverifiedBy(from, to, RollbackWrites)
    /\ UNCHANGED <<chain, reorgs>>
    /\ UNCHANGED <<runVars, auxVars>>

\* the process dies inside rollbackRange, after `writes` of its writes
CrashInRollback(from, to, writes) ==
    /\ MayBegin(from, to)
    /\ \E st \in rollbackRange(Store, from, to, writes) : SetStore(st)
    /\ hist' = [HistAtBegin(from, to) EXCEPT !.kind = "crashed"]
    /\ passes' = passes + 1
    /\ verifiedWith' = UnverifiedBy(from, to, writes)
    /\ UNCHANGED <<chain, pass, reorgs>>
    /\ UNCHANGED <<runVars, auxVars>>

\* the next log of the range goes through its handler
HandleNext ==
    /\ pass.active /\ pass.next <= Len(Work)
    /\ \E st \in HandleLog(Store, Work[pass.next]) : SetStore(st)
    /\ pass' = [pass EXCEPT !.next = @ + 1]
    /\ verifiedWith' = VerifiedBy(Work[pass.next])
    /\ UNCHANGED <<chain, hist, reorgs, passes>>
    /\ UNCHANGED <<runVars, auxVars>>

\* the process dies inside the handler of the next log
CrashInHandler ==
    /\ pass.active /\ pass.next <= Len(Work)
    /\ \E st \in HandleLogPartial(Store, Work[pass.next]) : SetStore(st)
    /\ pass' = IdlePass
    /\ hist' = Crashed
    /\ verifiedWith' = VerifiedBy(Work[pass.next])
    /\ UNCHANGED <<chain, reorgs, passes>>
    /\ UNCHANGED <<runVars, auxVars>>

\* the process dies between two handler calls, or after the last one and
\* before the chunk is checkpointed
CrashBetween ==
    /\ pass.active
    /\ pass' = IdlePass
    /\ hist' = Crashed
    /\ UNCHANGED <<chain, batches, proofs, lastVerifiedBatchId, reorgs, passes, verifiedWith>>
    /\ UNCHANGED <<runVars, auxVars>>

\* processRange returns
FinishRange ==
    /\ RangeDone
    /\ pass' = IdlePass
    /\ hist' = [kind |-> "completed", from |-> pass.from, to |-> pass.to, start |-> Rows(EmptyStore)]
    /\ UNCHANGED <<chain, batches, proofs, lastVerifiedBatchId, reorgs, passes, verifiedWith>>
    /\ UNCHANGED <<runVars, auxVars>>

StoreNext ==
    \/ \E log \in Logs : Emit(log)
    \/ \E i \in 1..MaxLogs, log \in Logs : ReorgReplace(i, log)
    \/ \E i \in 1..MaxLogs : ReorgDrop(i)
    \/ \E r \in Ranges : StartRange(r[1], r[2])
    \/ \E r \in Ranges, writes \in 0..(RollbackWrites - 1) : CrashInRollback(r[1], r[2], writes)
    \/ HandleNext
    \/ CrashInHandler
    \/ CrashBetween
    \/ FinishRange

(***************************************************************************)
(* Longer chains (SpecStoreLong): the logs of one batch, up to MaxLongLogs *)
(* of them, indexed by passes that all run to their end, with no           *)
(* reorganisation.                                                         *)
(***************************************************************************)
MaxLongLogs == 3
LongLogs == { log \in Logs : log.batchIds = <<1>> }

\* a block is mined: one more log of the batch on the canonical chain
EmitLong(log) ==
    /\ ~pass.active
    /\ Len(chain) < MaxLongLogs
    /\ Len(chain) > 0 => chain[Len(chain)].blockNumber <= log.blockNumber
    /\ OneBlockPerTransaction(Append(chain, log))
    /\ chain' = Append(chain, log)
    /\ hist' = NoHist
    /\ UNCHANGED <<batches, proofs, lastVerifiedBatchId, pass, reorgs, passes, verifiedWith>>
    /\ UNCHANGED <<runVars, auxVars>>

StoreLongNext ==
    \/ \E log \in LongLogs : EmitLong(log)
    \/ \E r \in Ranges : StartRange(r[1], r[2])
    \/ HandleNext
    \/ FinishRange

(***************************************************************************)
(* Logs that do not decode (SpecDecode): the provider returns, among the   *)
(* logs of one batch, logs whose data or topics do not fit the event's ABI.*)
(***************************************************************************)
MaxDecodeLogs == 2

\* a log that matched an event's filter and does not decode: its block and
\* transaction are known, none of its arguments is
MalformedLogs ==
    { Log(kind, bn, "txM", <<>>, <<>>, NONE, NONE, NULL) :
        kind \in {"BatchProposed", "BatchesProved", "BatchesVerified", "ConflictingProof"},
        bn \in Blocks }

DecodeLogs == LongLogs \cup MalformedLogs

\* viem's decodeEventLog: the arguments, or an exception
decodeEventLog(log) == IF log \in MalformedLogs THEN "throws" ELSE "args"

\* a block is mined: one more log, well-formed or not
EmitDecode(log) ==
    /\ ~pass.active
    /\ hist.kind # "crashed"
    /\ Len(chain) < MaxDecodeLogs
    /\ Len(chain) > 0 => chain[Len(chain)].blockNumber <= log.blockNumber
    /\ OneBlockPerTransaction(Append(chain, log))
    /\ chain' = Append(chain, log)
    /\ hist' = NoHist
    /\ UNCHANGED <<batches, proofs, lastVerifiedBatchId, pass, reorgs, passes, verifiedWith>>
    /\ UNCHANGED <<runVars, auxVars>>

\* the next log of the range decodes and goes through its handler
HandleDecoded ==
    /\ pass.active /\ pass.next <= Len(Work)
    /\ decodeEventLog(Work[pass.next]) = "args"
    /\ HandleNext

\* the next log of the range does not decode: none of the four handlers
\* catches the exception of decodeEventLog, nor does processRange; runIndexing
\* releases the lock as failed and rethrows, the checkpoint stays where it was
DecodeThrows ==
    /\ pass.active /\ pass.next <= Len(Work)
    /\ decodeEventLog(Work[pass.next]) = "throws"
    /\ pass' = IdlePass
    /\ hist' = Crashed
    /\ UNCHANGED <<chain, batches, proofs, lastVerifiedBatchId, reorgs, passes, verifiedWith>>
    /\ UNCHANGED <<runVars, auxVars>>

DecodeNext ==
    \/ \E log \in DecodeLogs : EmitDecode(log)
    \/ \E r \in Ranges : StartRange(r[1], r[2])
    \/ HandleDecoded
    \/ DecodeThrows
    \/ FinishRange

(***************************************************************************)
(* Proposals with a skewed clock (SpecPropose): the logs of one batch,     *)
(* among them BatchProposed events whose meta.proposedAt is behind or      *)
(* ahead of the timestamp of the block that holds them.                    *)
(***************************************************************************)
MaxProposeLogs == 3
ClockSkews == {-1, 1}

SkewedLogs ==
    { Log("BatchProposed", bn, "txP", <<1>>, <<>>, NONE, NONE, ChainTimestamp(bn) + skew) :
        bn \in Blocks, skew \in ClockSkews }

ProposeLogs == LongLogs \cup SkewedLogs

\* a block is mined: one more log of the batch on the canonical chain
EmitProposal(log) ==
    /\ ~pass.active
    /\ Len(chain) < MaxProposeLogs
    /\ Len(chain) > 0 => chain[Len(chain)].blockNumber <= log.blockNumber
    /\ OneBlockPerTransaction(Append(chain, log))
    /\ chain' = Append(chain, log)
    /\ hist' = NoHist
    /\ UNCHANGED <<batches, proofs, lastVerifiedBatchId, pass, reorgs, passes, verifiedWith>>
    /\ UNCHANGED <<runVars, auxVars>>

ProposeNext ==
    \/ \E log \in ProposeLogs : EmitProposal(log)
    \/ \E r \in Ranges : StartRange(r[1], r[2])
    \/ HandleNext
    \/ FinishRange

(***************************************************************************)
(* Properties of processRange (SpecStore).                                 *)
(***************************************************************************)
\* the handler of the next log of the range is about to run to its end
Handling(kind) ==
    /\ pass.active /\ pass.next <= Len(Work)
    /\ Work[pass.next].kind = kind
    /\ pass'.active /\ pass'.next = pass.next + 1

\* C3 (verification contiguity): when a BatchesVerified log with batchId =
\* newLast > prevLast has been handled, every id in (prevLast, newLast] has a
\* Batch row with status verified, and the ids that had no row before are
\* legacy placeholders.
VerificationContiguity ==
    [][ (Handling("BatchesVerified") /\ Work[pass.next].batchIds[1] > lastVerifiedBatchId)
        => \A id \in (lastVerifiedBatchId + 1)..(Work[pass.next].batchIds[1]) :
              /\ batches'[id].exists
              /\ batches'[id].status = "verified"
              /\ ~batches[id].exists => batches'[id].isLegacy ]_vars

\* no two BatchProof rows for one (batchId, proofTxHash)
UniqueProofKeys ==
    \A p, q \in proofs : (p.batchId = q.batchId /\ p.proofTxHash = q.proofTxHash) => p = q

\* C4 (idempotence): a processRange(from, to) that repeats the previous one
\* over the same logs ends with the Batch and BatchProof rows it started from,
\* and there is never more than one BatchProof row per (batchId, proofTxHash).
Idempotence ==
    /\ (RangeDone /\ hist.kind = "replaying") => Rows(Store) = hist.start
    /\ UniqueProofKeys

\* the proved logs of the range in progress for batch b
ProvedLogsFor(b) ==
    { i \in 1..Len(Work) : Work[i].kind = "BatchesProved" /\ Work[i].batchIds[1] = b }

\* the BatchProof rows recorded before the pass in progress, at a block of its
\* range, whose transaction the chain no longer holds there while it holds
\* exactly one other proof transaction for the same batch
SupersededProofs ==
    { p \in hist.start.proofs :
        /\ InRange(p.provenBlock, pass.from, pass.to)
        /\ Cardinality(ProvedLogsFor(p.batchId)) = 1
        /\ \A i \in ProvedLogsFor(p.batchId) : Work[i].transactionHash # p.proofTxHash }

\* the proof the chain now holds for batch b in the range in progress
SecondProof(b) == ProofDataOfLog(Work[CHOOSE i \in ProvedLogsFor(b) : TRUE], 1)

\* the pass in progress started from hist.start and has handled all its logs
PassDone == RangeDone /\ hist.kind \in {"running", "replaying"}

FirstProofGone(p) ==
    \A q \in proofs : ~(q.batchId = p.batchId /\ q.proofTxHash = p.proofTxHash)

\* before the pass, every BatchProof row of batch b was recorded in its range
RecordedInRangeOnly(b) ==
    \A q \in ProofsOf(hist.start, b) : InRange(q.provenBlock, pass.from, pass.to)

\* C5 as stated (reorg correctness): after the pass the first BatchProof row
\* no longer exists and the Batch row's proof fields are those of the second
\* proof.
ReorgCorrectnessAsStated ==
    PassDone =>
        \A p \in SupersededProofs :
            /\ FirstProofGone(p)
            /\ ProofDataOfRow(batches[p.batchId]) = SecondProof(p.batchId)

\* C5 as amended: after the pass the first BatchProof row no longer exists;
\* and if the batch is not verified after the pass and every BatchProof row it
\* had before the pass was recorded at a block of the range, the Batch row's
\* proof fields are those of the second proof.
ReorgCorrectness ==
    PassDone =>
        \A p \in SupersededProofs :
            /\ FirstProofGone(p)
            /\ (batches[p.batchId].status # "verified" /\ RecordedInRangeOnly(p.batchId))
                => ProofDataOfRow(batches[p.batchId]) = SecondProof(p.batchId)

ReorgCorrectnessWitness ==
    /\ PassDone
    /\ \E p \in SupersededProofs :
        /\ ProofDataOfRow(hist.start.batches[p.batchId]) = ProofDataOfRow(p)
        /\ batches[p.batchId].status = "proven"
        /\ RecordedInRangeOnly(p.batchId)
        /\ batches[p.batchId].proofTxHash = SecondProof(p.batchId).proofTxHash

\* batch b is not verified, carries a proof, and that proof is its only BatchProof row
CarriesItsOnlyProof(b) ==
    /\ batches[b].exists
    /\ batches[b].status # "verified"
    /\ \E old \in proofs :
        /\ ProofsOf(Store, b) = {old}
        /\ ProofDataOfRow(old) = ProofDataOfRow(batches[b])

\* C6 (earliest proof wins, in either arrival order): when a second proof is
\* applied to a batch that is not verified and carries its first proof, with
\* another transaction and another provenAt, the Batch row afterwards carries
\* the proof with the smaller provenAt, and both BatchProof rows are stored.
EarliestProofWins ==
    [][ \A b \in BatchIds :
          LET new == ProofDataOfLog(Work[pass.next], 1)
              old == ProofDataOfRow(batches[b])
          IN  ( /\ Handling("BatchesProved")
                /\ Work[pass.next].batchIds[1] = b
                /\ CarriesItsOnlyProof(b)
                /\ new.proofTxHash # old.proofTxHash
                /\ new.provenAt # old.provenAt )
              => /\ ProofDataOfRow(batches'[b]) = IF new.provenAt < old.provenAt THEN new ELSE old
                 /\ { ProofDataOfRow(q) : q \in { x \in proofs' : x.batchId = b } } = {old, new} ]_vars

\* the later proof arrived first: the proof just applied is the earlier one,
\* the Batch row carries it and both rows are stored
EarliestProofWinsWitness ==
    /\ pass.active /\ pass.next > 1
    /\ LET log == Work[pass.next - 1]
           b == log.batchIds[1]
       IN  /\ log.kind = "BatchesProved"
           /\ batches[b].status = "proven"
           /\ batches[b].proofTxHash = log.transactionHash
           /\ batches[b].provenBlock = log.blockNumber
           /\ Cardinality(ProofsOf(Store, b)) = 2
           /\ \E q \in ProofsOf(Store, b) : q.provenAt > batches[b].provenAt

\* C10 (crash consistency): when the run that follows a crashed one has
\* handled the same range over the same chain, the Batch and BatchProof rows
\* are rows an uninterrupted processRange would have left from the store the
\* crashed run started from, with no duplicated BatchProof row.
CrashConsistency ==
    (RangeDone /\ hist.kind = "recovering") =>
        /\ Rows(Store) \in
              { Rows(st) : st \in processRange([batches |-> hist.start.batches,
                                                proofs |-> hist.start.proofs,
                                                lastVerifiedBatchId |-> 0],
                                               chain, pass.from, pass.to) }
        /\ UniqueProofKeys

\* the order proposed < proven < verified
StatusRank(status) ==
    CASE status = "proposed" -> 1
      [] status = "proven" -> 2
      [] status = "verified" -> 3
      [] OTHER -> 0

\* some Batch row's status moves backwards in this step
StatusRegresses ==
    \E id \in BatchIds :
        /\ batches[id].exists
        /\ batches'[id].exists
        /\ StatusRank(batches'[id].status) < StatusRank(batches[id].status)

\* C11 (status monotonicity): a step that moves a Batch row's status backwards
\* in the order proposed < proven < verified is the rollbackRange/reconcileBatch
\* phase that opens a processRange; once the handlers of the range are being
\* applied, no step of theirs, complete or interrupted, moves a status backwards.
StatusMonotonicity ==
    [][ StatusRegresses => (~pass.active /\ passes' = passes + 1) ]_vars

\* C11 witness: in the pass in progress the handlers have moved a batch that
\* was proposed after the rollback to proven and then to verified, after a
\* pass whose rollback had taken it back from verified
StatusMonotonicityWitness ==
    /\ pass.active /\ pass.next > 2
    /\ \E id \in BatchIds :
        /\ hist.start.batches[id].status = "verified"
        /\ batches[id].status = "verified"
        /\ Work[pass.next - 1].kind = "BatchesVerified"
        /\ Work[pass.next - 1].batchIds[1] = id
        /\ Work[pass.next - 2].kind = "BatchesProved"
        /\ Work[pass.next - 2].batchIds[1] = id
        /\ InRange(hist.start.batches[id].verifiedBlock, pass.from, pass.to)
        /\ InRange(hist.start.batches[id].provenBlock, pass.from, pass.to)

\* the BatchProof rows of batch id whose transitionBlockHash is the block hash
\* the batch was verified with
MatchingProofs(id) ==
    { p \in ProofsOf(Store, id) : p.transitionBlockHash = verifiedWith[id] }

\* C12 (verified batches carry the matching proof): at the end of a
\* processRange, every Batch row with status verified that has a BatchProof
\* row with its verified block hash carries the transition triple and the
\* proof provenance of such a row.
VerifiedCarriesMatchingProof ==
    RangeDone =>
        \A id \in BatchIds :
            (batches[id].exists /\ batches[id].status = "verified" /\ MatchingProofs(id) # {})
            => \E p \in MatchingProofs(id) : ProofDataOfRow(batches[id]) = ProofDataOfRow(p)

\* the BatchProof rows of batch id with isVerified = true
FlaggedProofs(id) == { p \in ProofsOf(Store, id) : p.isVerified }

\* C13 (one verified proof): no batch ever has two BatchProof rows with
\* isVerified = true; and at the end of a processRange, a verified batch with
\* a BatchProof row of the verified block hash has exactly one flagged row,
\* and that row has the verified block hash.
OneVerifiedProof ==
    /\ \A id \in BatchIds : Cardinality(FlaggedProofs(id)) <= 1
    /\ RangeDone =>
          \A id \in BatchIds :
              (batches[id].exists /\ batches[id].status = "verified" /\ MatchingProofs(id) # {})
              => /\ Cardinality(FlaggedProofs(id)) = 1
                 /\ FlaggedProofs(id) \subseteq MatchingProofs(id)

\* C22 (flags follow the verification): at the end of a processRange, every
\* BatchProof row with isVerified = true belongs to a batch that is verified,
\* and verified with that row's transition block hash; in particular a row
\* left by a rollback that removed its batch's verification is not flagged
\* unless the replay verified the batch again with its block hash.
FlaggedOnlyWhileVerified ==
    RangeDone =>
        \A id \in BatchIds : \A p \in FlaggedProofs(id) :
            /\ batches[id].exists
            /\ batches[id].status = "verified"
            /\ verifiedWith[id] = p.transitionBlockHash


\* the BatchProof rows of batch id with the smallest provenAt
EarliestProofs(id) ==
    { p \in ProofsOf(Store, id) : \A q \in ProofsOf(Store, id) : p.provenAt <= q.provenAt }

\* C23 (the earliest proof is authoritative): at the end of a processRange,
\* every Batch row that is not verified and has BatchProof rows carries the
\* proof fields of one of its BatchProof rows with the smallest provenAt.
EarliestProofCarried ==
    RangeDone =>
        \A id \in BatchIds :
            (batches[id].exists /\ batches[id].status # "verified" /\ ProofsOf(Store, id) # {})
            => \E p \in EarliestProofs(id) : ProofDataOfRow(batches[id]) = ProofDataOfRow(p)


\* this step is a completed rollbackRange(pass'.from, pass'.to) (and the
\* resetVerificationCursor that follows it)
RollbackCompletes == ~pass.active /\ pass'.active

\* C25 (rollback postcondition): right after rollbackRange(from, to) no
\* BatchProof row has provenBlock in [from, to] and no Batch row has
\* verifiedBlock or provenBlock in it; the BatchProof rows outside the range
\* are exactly the rows kept; a Batch row that had no BatchProof row, no
\* provenBlock and no verifiedBlock in the range is unchanged; and no log of
\* the range has been handled yet.
RollbackPostcondition ==
    [][ RollbackCompletes =>
          LET from == pass'.from
              to == pass'.to
          IN  /\ \A p \in proofs' : ~InRange(p.provenBlock, from, to)
              /\ \A id \in BatchIds :
                     batches'[id].exists =>
                         /\ ~InRange(batches'[id].verifiedBlock, from, to)
                         /\ ~InRange(batches'[id].provenBlock, from, to)
              /\ proofs' = { p \in proofs : ~InRange(p.provenBlock, from, to) }
              /\ \A id \in BatchIds :
                     ( /\ \A p \in ProofsOf(Store, id) : ~InRange(p.provenBlock, from, to)
                       /\ ~InRange(batches[id].provenBlock, from, to)
                       /\ ~InRange(batches[id].verifiedBlock, from, to) )
                     => batches'[id] = batches[id]
              /\ pass'.next = 1
              /\ chain' = chain ]_vars

\* C25 witness: a rollback has just completed that deleted a BatchProof row of
\* the range, kept one outside it, took one batch back to proposed and left
\* another batch as it was
RollbackPostconditionWitness ==
    /\ pass.active /\ pass.next = 1
    /\ hist.kind \in {"running", "replaying"}
    /\ \E p \in hist.start.proofs : InRange(p.provenBlock, pass.from, pass.to)
    /\ \E q \in hist.start.proofs : ~InRange(q.provenBlock, pass.from, pass.to) /\ q \in proofs
    /\ \E id \in BatchIds :
           /\ hist.start.batches[id].status = "proven"
           /\ batches[id].status = "proposed"
    /\ \E id \in BatchIds :
           /\ batches[id].status = "proven"
           /\ batches[id] = hist.start.batches[id]

\* the batches rollbackRange(from, to) hands to reconcileBatch
AffectedBatchIds(from, to) ==
    { p.batchId : p \in { q \in proofs : InRange(q.provenBlock, from, to) } }
    \cup { id \in BatchIds : batches[id].exists /\ InRange(batches[id].verifiedBlock, from, to) }

\* C26 (reconcile postcondition): after reconcileBatch(b) of an existing
\* batch, the Batch row's proof fields are those of a remaining BatchProof row
\* flagged isVerified if there is one, else of a remaining row with the
\* smallest provenAt, else cleared; its status is verified if verifiedAt is
\* set, else proven if a row remains, else proposed.
ReconcilePostcondition ==
    [][ RollbackCompletes =>
          \A id \in AffectedBatchIds(pass'.from, pass'.to) :
              batches[id].exists =>
                  LET rows == { p \in proofs' : p.batchId = id }
                      flagged == { p \in rows : p.isVerified }
                      earliest == { p \in rows : \A q \in rows : p.provenAt <= q.provenAt }
                  IN  /\ IF flagged # {}
                         THEN \E p \in flagged : ProofDataOfRow(batches'[id]) = ProofDataOfRow(p)
                         ELSE IF rows # {}
                         THEN \E p \in earliest : ProofDataOfRow(batches'[id]) = ProofDataOfRow(p)
                         ELSE ProofDataOfRow(batches'[id]) = NoProofData
                      /\ batches'[id].status =
                             IF batches'[id].verifiedAt # NULL THEN "verified"
                             ELSE IF rows # {} THEN "proven" ELSE "proposed" ]_vars

\* C26 witness: the rollback deleted the BatchProof row a batch carried and
\* reconcileBatch gave it its remaining row and the status proven
ReconcilePostconditionWitness ==
    /\ pass.active /\ pass.next = 1
    /\ hist.kind \in {"running", "replaying"}
    /\ \E id \in BatchIds :
           /\ hist.start.batches[id].status = "proven"
           /\ InRange(hist.start.batches[id].provenBlock, pass.from, pass.to)
           /\ batches[id].status = "proven"
           /\ batches[id].proofTxHash # hist.start.batches[id].proofTxHash
           /\ \E p \in ProofsOf(Store, id) : ProofDataOfRow(p) = ProofDataOfRow(batches[id])


\* the batches with status verified among the given Batch rows
VerifiedIds(rows) == { id \in BatchIds : rows[id].exists /\ rows[id].status = "verified" }

\* C27 (verification cursor reset): when processRange(from, to) has rolled
\* back, lastVerifiedBatchId is the highest batch id whose verifiedBlock is
\* below from, 0 if there is none; and a processRange that repeats the
\* previous one over the same logs ends with the same batches verified, at
\* the same blocks, as it started with.
VerificationCursorReset ==
    /\ [][ RollbackCompletes =>
             LET settled == { id \in BatchIds : /\ batches'[id].exists
                                                /\ batches'[id].verifiedBlock # NULL
                                                /\ batches'[id].verifiedBlock < pass'.from }
             IN  /\ settled = {} => lastVerifiedBatchId' = 0
                 /\ settled # {} => /\ lastVerifiedBatchId' \in settled
                                    /\ \A id \in settled : id <= lastVerifiedBatchId' ]_vars
    /\ []( (RangeDone /\ hist.kind = "replaying") =>
             /\ VerifiedIds(batches) = VerifiedIds(hist.start.batches)
             /\ \A id \in VerifiedIds(batches) :
                    batches[id].verifiedBlock = hist.start.batches[id].verifiedBlock )

\* C34 (stale verification events): a BatchesVerified event whose batchId
\* is not above lastVerifiedBatchId changes no Batch row, no BatchProof row
\* and not the cursor; and while the events of a range are applied
\* lastVerifiedBatchId never decreases.
StaleVerificationIgnored ==
    /\ [][ (Handling("BatchesVerified") /\ Work[pass.next].batchIds[1] <= lastVerifiedBatchId)
             => /\ batches' = batches
                /\ proofs' = proofs
                /\ lastVerifiedBatchId' = lastVerifiedBatchId ]_vars
    /\ [][ pass.active => lastVerifiedBatchId' >= lastVerifiedBatchId ]_vars

\* C34 witness: the range held BatchesVerified for batch 2 and then for batch
\* 1; both were handled, the cursor is 2 and batch 1 has no row
StaleVerificationWitness ==
    /\ pass.active /\ pass.next = 3
    /\ Len(Work) = 2
    /\ Work[1].kind = "BatchesVerified" /\ Work[1].batchIds[1] = 2
    /\ Work[2].kind = "BatchesVerified" /\ Work[2].batchIds[1] = 1
    /\ lastVerifiedBatchId = 2
    /\ batches[2].status = "verified"
    /\ ~batches[1].exists

\* handleBatchesProved is about to run to its end on an entry for batch b,
\* whose Batch row has status verified
ProvedOnVerified(b) ==
    /\ Handling("BatchesProved")
    /\ Work[pass.next].batchIds[1] = b
    /\ batches[b].exists /\ batches[b].status = "verified"

\* the status and the verification columns of batch b are left alone
VerificationKept(b) ==
    /\ batches'[b].status = batches[b].status
    /\ batches'[b].verifiedAt = batches[b].verifiedAt
    /\ batches'[b].verifiedBlock = batches[b].verifiedBlock
    /\ batches'[b].verifiedTxHash = batches[b].verifiedTxHash

\* C28 (proof on a verified batch): a BatchesProved entry applied to a batch
\* with status verified leaves its status and verification columns alone; when
\* the proof's transition blockHash differs from the batch's stored one, no
\* Batch column changes; when it matches, the batch afterwards carries the
\* proof's tx hash, verifier, systems and transition; either way the BatchProof
\* row (batchId, proofTxHash) exists afterwards with the proof's columns.
ProofOnVerifiedBatch ==
    [][ \A b \in BatchIds : ProvedOnVerified(b) =>
          LET d == ProofDataOfLog(Work[pass.next], 1)
          IN  /\ VerificationKept(b)
              /\ d.transitionBlockHash # batches[b].transitionBlockHash
                    => batches'[b] = batches[b]
              /\ d.transitionBlockHash = batches[b].transitionBlockHash
                    => ProofDataOfRow(batches'[b]) = d
              /\ \E p \in proofs' : /\ p.batchId = b
                                    /\ ProofDataOfRow(p) = d
                                    /\ \A q \in proofs' :
                                          (q.batchId = b /\ q.proofTxHash = d.proofTxHash) => q = p
    ]_vars


\* the status the claim derives from the columns of a Batch row
StatusOfFields(b) ==
    IF b.verifiedAt # NULL THEN "verified"
    ELSE IF b.provenAt # NULL THEN "proven"
    ELSE "proposed"

\* C29 (status consistency): when rollbackRange has ended and when
\* processRange has ended, every Batch row's status is verified exactly when
\* its verifiedAt is set, otherwise proven exactly when its provenAt is set,
\* otherwise proposed.
StatusConsistency ==
    (pass.active /\ (pass.next = 1 \/ RangeDone)) =>
        \A id \in BatchIds : batches[id].exists => batches[id].status = StatusOfFields(batches[id])

\* the next log of the range in progress is a log of this kind that does not
\* decode
MalformedNext(kind) ==
    /\ pass.active /\ pass.next <= Len(Work)
    /\ Work[pass.next].kind = kind
    /\ decodeEventLog(Work[pass.next]) = "throws"

\* C30 (decode errors): a proposal or verification log that does not decode
\* is skipped: its handler writes nothing and processRange goes on with the
\* next log of the range, so that the range and the run complete.
MalformedLogSkipped ==
    [][ \A kind \in {"BatchProposed", "BatchesVerified"} :
          MalformedNext(kind) =>
              /\ pass'.active /\ pass'.next = pass.next + 1
              /\ batches' = batches /\ proofs' = proofs
              /\ lastVerifiedBatchId' = lastVerifiedBatchId ]_vars

\* the canonical chain holds no ConflictingProof and no BatchProposed log of
\* batch b
NoLogCreates(b) ==
    \A i \in 1..Len(chain) :
        chain[i].kind \in {"ConflictingProof", "BatchProposed"} => chain[i].batchIds # <<b>>

\* C37 (contested flag and rows are permanent): no step of processRange
\* (rollbackRange with its reconcileBatch calls, whole or interrupted, and
\* every event handler) deletes a Batch row or sets isContested back to
\* false on a row where it is true.
ContestedIsPermanent ==
    [][ \A b \in BatchIds :
            /\ batches[b].exists => batches'[b].exists
            /\ batches[b].isContested => batches'[b].isContested ]_vars

\* C37 witness: the whole chain was processed again after a reorganisation
\* that left no ConflictingProof and no BatchProposed log of a batch, and
\* the batch's row is still there with its contested flag
ContestedIsPermanentWitness ==
    /\ PassDone
    /\ reorgs > 0
    /\ pass.from = 1 /\ pass.to = MaxBlock
    /\ \E b \in BatchIds :
        /\ NoLogCreates(b)
        /\ batches[b].exists
        /\ batches[b].isContested

\* C38 (frame of ConflictingProof): the handler of a ConflictingProof event
\* for batch b sets isContested on b's row and changes no other column of
\* it when the row exists; when there is no row it creates one with status
\* proposed and isContested = true.
ConflictingProofFrame ==
    [][ Handling("ConflictingProof") =>
            LET b == Work[pass.next].batchIds[1]
            IN  IF batches[b].exists
                THEN batches'[b] = [batches[b] EXCEPT !.isContested = TRUE]
                ELSE /\ batches'[b].exists
                     /\ batches'[b].status = "proposed"
                     /\ batches'[b].isContested ]_vars

\* C38 witness: the handler has just flagged a batch that carries a proof; the
\* row is proven as before
ConflictingProofFrameWitness ==
    /\ pass.active /\ pass.next > 1
    /\ Work[pass.next - 1].kind = "ConflictingProof"
    /\ LET b == Work[pass.next - 1].batchIds[1]
       IN  /\ batches[b].isContested
           /\ batches[b].status = "proven"
           /\ batches[b].proofTxHash # NONE
           /\ batches[b].proposedBlock # 0

\* the earlier of two dates
EarlierDate(a, b) == IF a <= b THEN a ELSE b

\* the verification columns of a Batch row
VerificationOfRow(row) ==
    [ verifiedAt |-> row.verifiedAt, verifiedBlock |-> row.verifiedBlock,
      verifiedTxHash |-> row.verifiedTxHash ]

MaxFetchBlock == 3
MaxFetchCalls == 2
\* range.attempts < 6
MaxRateLimitAttempts == 6

FetchBlocks == 0..MaxFetchBlock
\* the limits a provider can name in its rejection; 0 is "none named"
RangeLimits == 0..(MaxFetchBlock + 1)

Range(from, to, attempts) == [from |-> from, to |-> to, attempts |-> attempts]

\* client.getLogs over [from, to] when it succeeds
getLogs(from, to) == [i \in 1..(to - from + 1) |-> from + i - 1]

RECURSIVE EnqueueFrom(_, _, _, _)
EnqueueFrom(queue, cursor, to, maxRange) ==
    IF cursor > to THEN queue
    ELSE LET end == IF cursor + maxRange - 1 > to THEN to ELSE cursor + maxRange - 1
         IN  EnqueueFrom(Append(queue, Range(cursor, end, 0)), end + 1, to, maxRange)

RECURSIVE EnqueueSkippingFrom(_, _, _, _)
EnqueueSkippingFrom(queue, cursor, to, maxRange) ==
    IF cursor > to THEN queue
    ELSE LET end == IF cursor + maxRange - 1 > to THEN to ELSE cursor + maxRange - 1
         IN  EnqueueSkippingFrom(Append(queue, Range(cursor, end, 0)), end + 2, to, maxRange)

\* mutant: the next range starts one block after the block it should start at
enqueueRangesSkipping(queue, from, to, maxRange) == EnqueueSkippingFrom(queue, from, to, maxRange)

\* mutant: the range is queued whole, whatever maxRange is
enqueueRangesWhole(queue, from, to, maxRange) == Append(queue, Range(from, to, 0))

enqueueRanges(queue, from, to, maxRange) == EnqueueFrom(queue, from, to, maxRange)

\* Math.min(1000 * 2 ** range.attempts, 15000)
MaxDelayMs == 15000
BaseDelayMs == 1000

\* mutant: the delay doubles without a ceiling
delayMsUncapped(attempts) == BaseDelayMs * 2^attempts

delayMs(attempts) ==
    IF BaseDelayMs * 2^attempts < MaxDelayMs THEN BaseDelayMs * 2^attempts ELSE MaxDelayMs

\* what the catch block makes of the provider's error: isLogRangeError is
\* tested first and counts for a range of several blocks only, isRateLimitError
\* second; "other" is an error that is neither
ErrorKinds == {"rangeError", "rateLimit", "other"}

\* no call in progress; logRangeLimit is a field of the service and outlives the call.
\* answer is the outcome of the last getLogs request, delayMs the last sleep,
\* hint what extractLogRangeLimit made of the last range error (0 for null).
IdleFetch(logRangeLimit, calls) ==
    [ pc |-> "idle", from |-> NULL, to |-> NULL, queue |-> <<>>, results |-> <<>>,
      logRangeLimit |-> logRangeLimit, calls |-> calls, split |-> FALSE, throttled |-> FALSE,
      answer |-> "none", delayMs |-> 0, hint |-> 0 ]

\* the head of the queue is sent to the provider (it is within logRangeLimit)
Requesting ==
    /\ fetch.pc = "loop"
    /\ fetch.queue # <<>>
    /\ ~( fetch.logRangeLimit # 0
          /\ Head(fetch.queue).to - Head(fetch.queue).from + 1 > fetch.logRangeLimit )

\* lines 760-765
GetLogsSafe(fromBlock, toBlock) ==
    /\ fetch.pc = "idle"
    /\ fetch.calls < MaxFetchCalls
    /\ fetch' = [ fetch EXCEPT !.pc = "loop", !.from = fromBlock, !.to = toBlock,
                               !.queue = <<Range(fromBlock, toBlock, 0)>>, !.results = <<>>,
                               !.calls = @ + 1, !.split = FALSE, !.throttled = FALSE ]
    /\ UNCHANGED <<runVars, storeVars, plan, classify>>

\* lines 773-779: a range wider than the known limit is cut up without a request
SplitByLimit ==
    /\ fetch.pc = "loop"
    /\ fetch.queue # <<>>
    /\ fetch.logRangeLimit # 0
    /\ Head(fetch.queue).to - Head(fetch.queue).from + 1 > fetch.logRangeLimit
    /\ fetch' = [ fetch EXCEPT !.queue = enqueueRanges(Tail(fetch.queue), Head(fetch.queue).from,
                                                       Head(fetch.queue).to, fetch.logRangeLimit) ]
    /\ UNCHANGED <<runVars, storeVars, plan, classify>>

\* lines 782-788
GetLogsAnswers ==
    /\ Requesting
    /\ fetch' = [ fetch EXCEPT !.results = @ \o getLogs(Head(fetch.queue).from, Head(fetch.queue).to),
                               !.queue = Tail(@), !.answer = "logs" ]
    /\ UNCHANGED <<runVars, storeVars, plan, classify>>

\* lines 790-801: the provider rejects the range as too wide, naming `limit` or not
RangeTooWide(limit) ==
    /\ Requesting
    /\ Head(fetch.queue).from < Head(fetch.queue).to
    /\ LET range == Head(fetch.queue)
           mid == (range.from + range.to) \div 2
       IN  fetch' =
             IF limit > 0
             THEN [ fetch EXCEPT !.logRangeLimit = limit, !.split = TRUE, !.answer = "rangeError",
                                 !.hint = limit,
                                 !.queue = enqueueRanges(Tail(fetch.queue), range.from, range.to, limit) ]
             ELSE [ fetch EXCEPT !.split = TRUE, !.answer = "rangeError", !.hint = 0,
                                 !.queue = <<Range(range.from, mid, 0), Range(mid + 1, range.to, 0)>>
                                             \o Tail(fetch.queue) ]
    /\ UNCHANGED <<runVars, storeVars, plan, classify>>

\* lines 803-808: the provider throttles the request
RateLimited ==
    /\ Requesting
    /\ Head(fetch.queue).attempts < MaxRateLimitAttempts
    /\ fetch' = [ fetch EXCEPT !.throttled = TRUE, !.answer = "rateLimit",
                               !.delayMs = delayMs(Head(fetch.queue).attempts),
                               !.queue = <<[Head(fetch.queue) EXCEPT !.attempts = @ + 1]>>
                                           \o Tail(fetch.queue) ]
    /\ UNCHANGED <<runVars, storeVars, plan, classify>>

\* line 810: any other error, a seventh throttling, a one-block range rejected as too wide
GetLogsThrows(error) ==
    /\ Requesting
    /\ error = "rangeError" => Head(fetch.queue).from >= Head(fetch.queue).to
    /\ error = "rateLimit" => Head(fetch.queue).attempts >= MaxRateLimitAttempts
    /\ fetch' = [ fetch EXCEPT !.pc = "threw", !.answer = error ]
    /\ UNCHANGED <<runVars, storeVars, plan, classify>>

\* line 814
GetLogsReturns ==
    /\ fetch.pc = "loop"
    /\ fetch.queue = <<>>
    /\ fetch' = [ fetch EXCEPT !.pc = "returned" ]
    /\ UNCHANGED <<runVars, storeVars, plan, classify>>

\* the caller goes on to its next getLogsSafe call
NextFetch ==
    /\ fetch.pc \in {"returned", "threw"}
    /\ fetch' = IdleFetch(fetch.logRangeLimit, fetch.calls)
    /\ UNCHANGED <<runVars, storeVars, plan, classify>>

FetchNext ==
    \/ \E fromBlock, toBlock \in FetchBlocks : fromBlock <= toBlock /\ GetLogsSafe(fromBlock, toBlock)
    \/ SplitByLimit
    \/ GetLogsAnswers
    \/ \E limit \in RangeLimits : RangeTooWide(limit)
    \/ RateLimited
    \/ \E error \in ErrorKinds : GetLogsThrows(error)
    \/ GetLogsReturns
    \/ NextFetch

\* how often block b is among the results
TimesFetched(b) == Cardinality({ i \in 1..Len(fetch.results) : fetch.results[i] = b })

\* C14 (fetch coverage): when getLogsSafe(event, from, to) returns, whatever
\* the provider rejected on the way, every block of [from, to] was answered by
\* exactly one successful request and no block outside it was: the result
\* holds every matching log once.
FetchCoverage ==
    fetch.pc = "returned" =>
        /\ \A b \in fetch.from..fetch.to : TimesFetched(b) = 1
        /\ \A i \in 1..Len(fetch.results) : fetch.results[i] \in fetch.from..fetch.to

\* C14 witness: a call over four blocks returned after a range-too-wide
\* rejection and a throttled request, answered by at least three requests'
\* worth of blocks
FetchCoverageWitness ==
    /\ fetch.pc = "returned"
    /\ fetch.split /\ fetch.throttled
    /\ fetch.to - fetch.from = MaxFetchBlock
    /\ Len(fetch.results) = MaxFetchBlock + 1

\* the width of a queued range
Width(range) == range.to - range.from + 1

\* this step is the catch branch of a range-too-wide rejection: a request
\* for a range of several blocks was sent and the loop goes on with a queue
\* that is neither the rest of the queue nor the same range counted once more
RejectedAsTooWide ==
    /\ Requesting
    /\ Head(fetch.queue).from < Head(fetch.queue).to
    /\ fetch'.pc = "loop"
    /\ fetch'.results = fetch.results
    /\ fetch'.queue # Tail(fetch.queue)
    /\ fetch'.queue # <<[Head(fetch.queue) EXCEPT !.attempts = @ + 1]>> \o Tail(fetch.queue)

\* every range queued over blocks of the rejected range is narrower than it
StrictlyNarrower ==
    \A i \in 1..Len(fetch'.queue) :
        ( /\ fetch'.queue[i].from >= Head(fetch.queue).from
          /\ fetch'.queue[i].to <= Head(fetch.queue).to )
        => Width(fetch'.queue[i]) < Width(Head(fetch.queue))

\* C21 (termination): a range-too-wide rejection puts only strictly narrower
\* ranges in place of the rejected one, and every getLogsSafe call that has
\* entered its loop leaves it, by returning or by throwing.
GetLogsSafeTerminates ==
    /\ [][RejectedAsTooWide => StrictlyNarrower]_vars
    /\ (fetch.pc = "loop" ~> fetch.pc # "loop")

\* C24 (requests in chain order): the successful requests of a getLogsSafe
\* call are answered in ascending block order, so at every moment the logs
\* collected so far are ordered by block number.
FetchAscending ==
    \A i \in 1..(Len(fetch.results) - 1) : fetch.results[i] < fetch.results[i + 1]

\* the delays of the claim, for attempt n = 0..5
BackoffSchedule == <<1000, 2000, 4000, 8000, 15000, 15000>>

\* this step is a getLogs request that the provider throttles
RateLimitAnswered ==
    /\ Requesting
    /\ fetch' # fetch
    /\ fetch'.answer = "rateLimit"

\* C31 (rate limiting): a throttled request for a range that was throttled
\* n <= 5 times before is put back at the head of the queue with the same
\* from and to, after a sleep of min(1000 * 2^n, 15000) ms (1s, 2s, 4s, 8s,
\* 15s, 15s), nothing else changing; the seventh throttling of the same range
\* throws out of getLogsSafe and is not retried.
RateLimitBackoff ==
    [][ RateLimitAnswered =>
          LET range == Head(fetch.queue)
          IN  IF range.attempts + 1 <= Len(BackoffSchedule)
              THEN /\ fetch'.pc = "loop"
                   /\ fetch'.queue = <<Range(range.from, range.to, range.attempts + 1)>>
                                        \o Tail(fetch.queue)
                   /\ fetch'.delayMs = BackoffSchedule[range.attempts + 1]
                   /\ fetch'.results = fetch.results
                   /\ fetch'.logRangeLimit = fetch.logRangeLimit
              ELSE /\ fetch'.pc = "threw"
                   /\ fetch'.queue = fetch.queue
    ]_vars

\* C31 witness: a range throttled six times, the last sleeps being of 15 s,
\* was throttled a seventh time and getLogsSafe threw
RateLimitBackoffWitness ==
    /\ fetch.pc = "threw"
    /\ fetch.answer = "rateLimit"
    /\ Head(fetch.queue).attempts = Len(BackoffSchedule)
    /\ Head(fetch.queue).from < Head(fetch.queue).to
    /\ fetch.delayMs = BackoffSchedule[Len(BackoffSchedule)]

\* queue' is `rest` followed by consecutive ranges that cover the blocks of
\* `range`, each at most w wide and not yet attempted
CutUp(rest, range, w) ==
    /\ Len(fetch'.queue) > Len(rest)
    /\ SubSeq(fetch'.queue, 1, Len(rest)) = rest
    /\ LET new == SubSeq(fetch'.queue, Len(rest) + 1, Len(fetch'.queue))
       IN  /\ new[1].from = range.from
           /\ new[Len(new)].to = range.to
           /\ \A i \in 1..Len(new) :
                  /\ new[i].from <= new[i].to
                  /\ Width(new[i]) <= w
                  /\ new[i].attempts = 0
           /\ \A i \in 1..(Len(new) - 1) : new[i + 1].from = new[i].to + 1

\* this step is a getLogs request for [a, b], a < b, that the provider
\* rejects as too wide
RangeErrorAnswered ==
    /\ fetch.pc = "loop" /\ fetch.queue # <<>>
    /\ fetch' # fetch
    /\ fetch'.pc = "loop"
    /\ fetch'.answer = "rangeError"
    /\ fetch'.results = fetch.results
    /\ fetch'.queue # Tail(fetch.queue)
    /\ fetch'.queue # <<[Head(fetch.queue) EXCEPT !.attempts = @ + 1]>> \o Tail(fetch.queue)
    /\ ~(fetch.logRangeLimit # 0 /\ Width(Head(fetch.queue)) > fetch.logRangeLimit)

\* the head of the queue is wider than the cached limit
WiderThanLimit ==
    /\ fetch.pc = "loop" /\ fetch.queue # <<>>
    /\ fetch.logRangeLimit # 0
    /\ Width(Head(fetch.queue)) > fetch.logRangeLimit

\* C32 (range too wide): a rejection with width hint w puts consecutive
\* sub-ranges of width <= w in the queue in place of the rejected range and
\* caches w; a rejection with no hint replaces [a, b] by [a, mid] and
\* [mid + 1, b], mid = floor((a + b) / 2), and leaves the cache alone; a range
\* wider than the cached limit is never requested, in this call or a later
\* one, it is cut up into ranges within the limit; nothing else changes the
\* cached limit.
RangeTooWideHandling ==
    /\ [][ RangeErrorAnswered =>
             LET range == Head(fetch.queue)
                 mid == (range.from + range.to) \div 2
             IN  /\ range.from < range.to
                 /\ fetch'.hint > 0 =>
                        /\ CutUp(Tail(fetch.queue), range, fetch'.hint)
                        /\ fetch'.logRangeLimit = fetch'.hint
                 /\ fetch'.hint = 0 =>
                        /\ 2 * mid <= range.from + range.to /\ range.from + range.to < 2 * mid + 2
                        /\ fetch'.queue = <<Range(range.from, mid, 0), Range(mid + 1, range.to, 0)>>
                                             \o Tail(fetch.queue)
                        /\ fetch'.logRangeLimit = fetch.logRangeLimit ]_vars
    /\ [][ (WiderThanLimit /\ fetch' # fetch) =>
             /\ CutUp(Tail(fetch.queue), Head(fetch.queue), fetch.logRangeLimit)
             /\ fetch'.results = fetch.results
             /\ fetch'.answer = fetch.answer
             /\ fetch'.logRangeLimit = fetch.logRangeLimit ]_vars
    /\ [][ fetch'.logRangeLimit # fetch.logRangeLimit =>
             (RangeErrorAnswered /\ fetch'.hint > 0) ]_vars

\* C32 witness: in a second getLogsSafe call, a range wider than the limit
\* cached by a hinted rejection of the first call was cut up without a
\* request, and one of the pieces was rejected with no hint and bisected
RangeTooWideWitness ==
    /\ fetch.calls = 2
    /\ fetch.pc = "loop"
    /\ fetch.logRangeLimit = 3
    /\ fetch.from = 0 /\ fetch.to = MaxFetchBlock
    /\ fetch.answer = "rangeError" /\ fetch.hint = 0
    /\ fetch.queue = <<Range(0, 1, 0), Range(2, 2, 0), Range(3, 3, 0)>>

(***************************************************************************)
(* Part IV. runIndexing of one process, run after run, under every         *)
(* configuration of a bounded set and every observed chain head.           *)
(***************************************************************************)
MaxPlanHead == 5
MaxPlanRuns == 2
MaxConfirmations == 2
MaxReorgBuffer == 2
MaxChunkSize == 3
MaxStartBlock == 2

PlanHeads == 0..MaxPlanHead
\* START_BLOCK is optional
StartBlockConfigs == {NULL} \cup 0..MaxStartBlock

Config(conf, buffer, chunkSize, startBlockConfig) ==
    [ confirmations |-> conf, reorgBuffer |-> buffer, indexerChunkSize |-> chunkSize,
      startBlock |-> startBlockConfig ]

Configs ==
    { Config(conf, buffer, chunkSize, startBlockConfig) :
        conf \in 0..MaxConfirmations, buffer \in 0..MaxReorgBuffer,
        chunkSize \in 1..MaxChunkSize, startBlockConfig \in StartBlockConfigs }

\* the locals of runIndexing between two runs
IdlePlan(config, runsDone) ==
    [ pc |-> "idle", config |-> config, runsDone |-> runsDone, lockId |-> NULL,
      latestBlock |-> NULL, safeBlock |-> NULL, startBlock |-> NULL,
      lastProcessedBlock |-> NULL, fromBlock |-> NULL, cursor |-> NULL,
      ranges |-> <<>>, checkpointedAt |-> NULL ]

NoPlan == IdlePlan(Config(confirmations, reorgBuffer, indexerChunkSize, configStartBlock), 0)

\* lines 52-70: read the head, take the lock, compute the first block
PlanAcquire(latestBlock) ==
    /\ plan.pc = "idle"
    /\ plan.runsDone < MaxPlanRuns
    /\ LET safeBlock == SafeBlockFor(latestBlock, plan.config.confirmations)
           startBlock == StartBlockFor(plan.config.startBlock, safeBlock)
           lockId == plan.runsDone + 1
           got == acquireIndexingLock(indexingState, lockId, startBlock, now)
       IN  /\ indexingState' = got.state
           /\ plan' =
                 IF got.acquired
                 THEN [ plan EXCEPT !.pc = "acquired", !.lockId = lockId,
                                    !.latestBlock = latestBlock, !.safeBlock = safeBlock,
                                    !.startBlock = startBlock,
                                    !.lastProcessedBlock = got.lastProcessedBlock,
                                    !.fromBlock = FromBlockFor(got.lastProcessedBlock, startBlock,
                                                               plan.config.reorgBuffer),
                                    !.cursor = FromBlockFor(got.lastProcessedBlock, startBlock,
                                                            plan.config.reorgBuffer) ]
                 ELSE IdlePlan(plan.config, plan.runsDone + 1)
    /\ UNCHANGED <<now, runs, lastWrite, storeVars, fetch, classify>>

\* lines 74-78
PlanNoNewBlocks ==
    /\ plan.pc = "acquired"
    /\ plan.safeBlock <= plan.fromBlock
    /\ indexingState' = releaseIndexingLock(indexingState, plan.lockId, "success", NoError)
    /\ plan' = IdlePlan(plan.config, plan.runsDone + 1)
    /\ UNCHANGED <<now, runs, lastWrite, storeVars, fetch, classify>>

\* lines 90-96: the loop test and the call of processRange(cursor, toBlock)
PlanProcessRange ==
    /\ plan.pc \in {"acquired", "loop"}
    /\ plan.pc = "acquired" => plan.safeBlock > plan.fromBlock
    /\ plan.cursor <= plan.safeBlock
    /\ plan' = [ plan EXCEPT !.pc = "processing",
                             !.ranges = Append(@, [ from |-> plan.cursor,
                                                    to |-> ToBlockFor(plan.cursor, plan.safeBlock,
                                                                      plan.config.indexerChunkSize) ]) ]
    /\ UNCHANGED <<now, indexingState, runs, lastWrite, storeVars, fetch, classify>>

\* line 104, then the loop's increment and test (line 90)
PlanCheckpoint ==
    /\ plan.pc = "processing"
    /\ LET toBlock == plan.ranges[Len(plan.ranges)].to
           res == checkpointIndexingProgress(indexingState, plan.lockId, toBlock, now)
       IN  /\ indexingState' = res.state
           /\ plan' =
                 IF res.threw
                 THEN [ plan EXCEPT !.pc = "catch" ]
                 ELSE [ plan EXCEPT !.cursor = @ + plan.config.indexerChunkSize,
                                    !.checkpointedAt = now,
                                    !.pc = IF plan.cursor + plan.config.indexerChunkSize <= plan.safeBlock
                                           THEN "loop" ELSE "final" ]
    /\ UNCHANGED <<now, runs, lastWrite, storeVars, fetch, classify>>

\* line 110
PlanFinalCheckpoint ==
    /\ plan.pc = "final"
    /\ LET res == checkpointIndexingProgress(indexingState, plan.lockId, plan.safeBlock, now)
       IN  /\ indexingState' = res.state
           /\ plan' = [ plan EXCEPT !.pc = IF res.threw THEN "catch" ELSE "stats",
                                    !.checkpointedAt = IF res.threw THEN @ ELSE now ]
    /\ UNCHANGED <<now, runs, lastWrite, storeVars, fetch, classify>>

\* processRange or refreshDailyStats throws
PlanStepThrows ==
    /\ plan.pc \in {"processing", "stats"}
    /\ plan' = [ plan EXCEPT !.pc = "catch" ]
    /\ UNCHANGED <<now, indexingState, runs, lastWrite, storeVars, fetch, classify>>

\* lines 111-124
PlanRelease ==
    /\ plan.pc = "stats"
    /\ indexingState' = releaseIndexingLock(indexingState, plan.lockId, "success", NoError)
    /\ plan' = IdlePlan(plan.config, plan.runsDone + 1)
    /\ UNCHANGED <<now, runs, lastWrite, storeVars, fetch, classify>>

\* lines 125-128
PlanCatch ==
    /\ plan.pc = "catch"
    /\ indexingState' = releaseIndexingLock(indexingState, plan.lockId, "failed", LockLostError)
    /\ plan' = IdlePlan(plan.config, plan.runsDone + 1)
    /\ UNCHANGED <<now, runs, lastWrite, storeVars, fetch, classify>>

PlanTick ==
    /\ now < MaxTime
    /\ now' = now + 1
    /\ UNCHANGED <<indexingState, runs, lastWrite, storeVars, auxVars>>

PlanNext ==
    \/ \E latestBlock \in PlanHeads : PlanAcquire(latestBlock)
    \/ PlanNoNewBlocks
    \/ PlanProcessRange
    \/ PlanCheckpoint
    \/ PlanFinalCheckpoint
    \/ PlanStepThrows
    \/ PlanRelease
    \/ PlanCatch
    \/ PlanTick

Max(a, b) == IF a > b THEN a ELSE b

\* C15 (progress is retained): no step lowers the cursor row's
\* lastProcessedBlock: every checkpoint writes a value at least as large as
\* the stored one.
CursorNeverDecreases ==
    [][ (indexingState.exists /\ indexingState'.exists)
        => indexingState'.lastProcessedBlock >= indexingState.lastProcessedBlock ]_vars

\* C16: the run's first block is max(lastCheckpoint - reorgBuffer, startBlock),
\* and so never below startBlock.
FromBlockIsMax ==
    plan.pc # "idle" =>
        /\ plan.fromBlock = Max(plan.lastProcessedBlock - plan.config.reorgBuffer, plan.startBlock)
        /\ plan.fromBlock >= plan.startBlock

\* C17: the run's upper bound is max(latestChainBlock - confirmations, 0), and
\* so is 0 whenever latestChainBlock <= confirmations.
SafeBlockIsMax ==
    plan.pc # "idle" =>
        /\ plan.safeBlock = Max(plan.latestBlock - plan.config.confirmations, 0)
        /\ plan.latestBlock <= plan.config.confirmations => plan.safeBlock = 0

\* C18 (chunking): the ranges a run has passed to processRange start at
\* fromBlock, follow one another without gap or overlap in ascending order,
\* span at most chunkSize blocks each and stay within safeBlock; when the loop
\* has ended they end at safeBlock; and between a chunk's checkpoint and the
\* next chunk the cursor row holds the chunk's upper bound and an expiry
\* refreshed at that checkpoint.
Chunking ==
    LET rs == plan.ranges
    IN  /\ \A i \in 1..Len(rs) :
              /\ rs[i].from <= rs[i].to
              /\ rs[i].to - rs[i].from + 1 <= plan.config.indexerChunkSize
              /\ rs[i].to <= plan.safeBlock
              /\ i = 1 => rs[i].from = plan.fromBlock
              /\ i > 1 => rs[i].from = rs[i - 1].to + 1
        /\ plan.pc \in {"acquired", "loop", "final", "stats"} => plan.fromBlock < plan.safeBlock
              \/ rs = <<>>
        /\ plan.pc \in {"final", "stats"} => (rs # <<>> /\ rs[Len(rs)].to = plan.safeBlock)
        /\ plan.pc \in {"loop", "final"} =>
              /\ indexingState.lastProcessedBlock = rs[Len(rs)].to
              /\ indexingState.lockId = plan.lockId
              /\ indexingState.lockExpiresAt = plan.checkpointedAt + indexerLockTtlSeconds

\* C18 witness: a run that started above block 0 is between its second chunk,
\* a full one, and its third, after the clock moved between the checkpoints
ChunkingWitness ==
    /\ plan.pc = "loop"
    /\ plan.fromBlock > 0
    /\ Len(plan.ranges) = 2
    /\ plan.ranges[2].to - plan.ranges[2].from + 1 = plan.config.indexerChunkSize
    /\ plan.config.indexerChunkSize > 1
    /\ plan.checkpointedAt > 0


\* runIndexing calls acquireIndexingLock in this step
PlanAcquires == plan.pc = "idle" /\ plan' # plan

\* C40 (frame of the acquisition): acquireIndexingLock leaves the
\* lastProcessedBlock of an existing indexing_state row as it is, whether it
\* takes the lock or not, and hands the stored value to the run; when there
\* is no row it creates one with lastProcessedBlock = startBlock; and no
\* other step creates the row.
AcquireKeepsCursor ==
    /\ [][ PlanAcquires =>
              IF indexingState.exists
              THEN /\ indexingState'.exists
                   /\ indexingState'.lastProcessedBlock = indexingState.lastProcessedBlock
                   /\ plan'.pc = "acquired" =>
                          plan'.lastProcessedBlock = indexingState.lastProcessedBlock
              ELSE /\ plan'.pc = "acquired"
                   /\ indexingState'.exists
                   /\ indexingState'.lastProcessedBlock = plan'.startBlock
                   /\ plan'.lastProcessedBlock = plan'.startBlock ]_vars
    /\ [][ (~indexingState.exists /\ indexingState'.exists) => PlanAcquires ]_vars

\* C40 witness: a later run has taken the lock on a row whose cursor is not
\* the startBlock this run computed; the row still has that cursor and the
\* run received it
AcquireKeepsCursorWitness ==
    /\ plan.pc = "acquired"
    /\ plan.runsDone > 0
    /\ indexingState.lockId = plan.lockId
    /\ indexingState.lastProcessedBlock # plan.startBlock
    /\ plan.lastProcessedBlock = indexingState.lastProcessedBlock

(***************************************************************************)
(* Part V. classifyProof and the verifier registry, as handleBatchesProved *)
(* calls them, and the BatchProof row each call records.                   *)
(***************************************************************************)

\* at most this many BatchesProved logs are handled
MaxClassifyCalls == 2
\* at most this many sub-proofs in a proof's calldata
MaxSubProofs == 2

\* the keys of the registry's mapping, in the order getSystemsFor tests them
ProofSystems == <<"TEE", "SP1", "RISC0">>
ProofSystemSet == { ProofSystems[i] : i \in 1..Len(ProofSystems) }

\* String.prototype.toLowerCase on the addresses of the model
toLowerCase(address) ==
    CASE address = "0xA" -> "0xa"
      [] address = "0xB" -> "0xb"
      [] address = "0xC" -> "0xc"
      [] OTHER -> address

normalize(address) == toLowerCase(address)

\* the addresses verifiers.json can list, in the case the file writes them
FileAddresses == {"0xA", "0xb"}
VerifierConfigFiles == [ ProofSystemSet -> SUBSET FileAddresses ]
\* the verifier of a BatchesProved event, as the log decoder returns it
EventVerifiers == {"0xA", "0xC", "0xc"}
\* the addresses a calldata sub-proof or a compose verifier's accessor returns
ChainAddresses == {"0xA", "0xB"}

\* sequences over S of length at most n
SeqsUpTo(S, n) == UNION { [1..k -> S] : k \in 0..n }

\* extractProofData: no proof bytes when the input does not decode as
\* proveBatches, else the proof bytes: either not a sub-proof array, or the
\* sub-proofs with their verifiers
NullProofData == [ isNull |-> TRUE, decodes |-> FALSE, verifiers |-> <<>> ]
ProofDatas ==
    { NullProofData, [ isNull |-> FALSE, decodes |-> FALSE, verifiers |-> <<>> ] }
    \cup { [ isNull |-> FALSE, decodes |-> TRUE, verifiers |-> v ] :
             v \in SeqsUpTo(ChainAddresses, MaxSubProofs) }

\* the five accessors of a compose verifier
ComposeAnswers ==
    [ sgxGeth : ChainAddresses, tdxGeth : ChainAddresses, sgxReth : ChainAddresses,
      risc0Reth : ChainAddresses, sp1Reth : ChainAddresses ]

\* addAddresses: every listed address joins the system's set, normalized
addAddresses(mapping, system, addresses) ==
    [ mapping EXCEPT ![system] = @ \cup { normalize(a) : a \in addresses } ]

loadFromFile(file) ==
    addAddresses(
        addAddresses(
            addAddresses([ s \in ProofSystemSet |-> {} ], "TEE", file["TEE"]),
            "SP1", file["SP1"]),
        "RISC0", file["RISC0"])

hasMappingFor(mapping, address) ==
    \/ normalize(address) \in mapping["TEE"]
    \/ normalize(address) \in mapping["SP1"]
    \/ normalize(address) \in mapping["RISC0"]

\* the systems of one address, in the order of the three tests
SystemsOfAddress(mapping, normalized) ==
    SelectSeq(ProofSystems, LAMBDA s : normalized \in mapping[s])

\* Set.add of each element of more, in order
RECURSIVE AddAll(_, _)
AddAll(systems, more) ==
    IF more = <<>> THEN systems
    ELSE AddAll(IF \E i \in 1..Len(systems) : systems[i] = Head(more)
                THEN systems ELSE Append(systems, Head(more)),
                Tail(more))

\* mutant: getSystemsFor without normalize
RECURSIVE getSystemsForAsWritten(_, _)
getSystemsForAsWritten(mapping, addresses) ==
    IF addresses = <<>> THEN <<>>
    ELSE AddAll(getSystemsForAsWritten(mapping, SubSeq(addresses, 1, Len(addresses) - 1)),
                SystemsOfAddress(mapping, addresses[Len(addresses)]))

\* getSystemsFor: Array.from of the set filled address by address
RECURSIVE getSystemsFor(_, _)
getSystemsFor(mapping, addresses) ==
    IF addresses = <<>> THEN <<>>
    ELSE AddAll(getSystemsFor(mapping, SubSeq(addresses, 1, Len(addresses) - 1)),
                SystemsOfAddress(mapping, normalize(addresses[Len(addresses)])))

\* decodeSubVerifiers: the verifiers of the sub-proofs, [] when decoding throws
decodeSubVerifiers(proofData) ==
    IF proofData.decodes THEN proofData.verifiers ELSE <<>>

\* mutant: the top-level verifier is checked along with the sub-verifiers
AddressesToCheckWithTopLevel(verifierAddress, proofData) ==
    LET subVerifiers == IF ~proofData.isNull THEN decodeSubVerifiers(proofData) ELSE <<>>
    IN  Append(subVerifiers, verifierAddress)

\* classifyProof's addressesToCheck
AddressesToCheck(verifierAddress, proofData) ==
    LET subVerifiers == IF ~proofData.isNull THEN decodeSubVerifiers(proofData) ELSE <<>>
    IN  IF Len(subVerifiers) # 0 THEN subVerifiers ELSE <<verifierAddress>>

\* the registry built from a file, and no BatchesProved log being handled
IdleClassify(file) ==
    [ pc |-> "idle", file |-> file, mapping |-> loadFromFile(file), composeCache |-> {},
      calls |-> 0, verifier |-> NONE, normalizedVerifier |-> NONE, proofData |-> NullProofData,
      hydrated |-> "no", addressesToCheck |-> <<>>, proofSystems |-> <<>>,
      batchProofs |-> {} ]

\* no verifiers.json, no classifyProof call in progress
NoClassify == IdleClassify([ s \in ProofSystemSet |-> {} ])

\* handleBatchesProved up to the classifyProof call: the event's verifier
\* lower-cased, the transaction fetched and its proof bytes extracted
HandleBatchesProved(verifier, proofData) ==
    /\ classify.pc = "idle"
    /\ classify.calls < MaxClassifyCalls
    /\ classify' = [ classify EXCEPT !.pc = "classifyProof",
                       !.verifier = verifier,
                       !.normalizedVerifier = toLowerCase(verifier),
                       !.proofData = proofData,
                       !.hydrated = "no",
                       !.addressesToCheck = <<>>,
                       !.proofSystems = <<>> ]
    /\ UNCHANGED <<runVars, storeVars, fetch, plan>>

\* classifyProof knows the verifier, or hydrateComposeVerifier finds it in
\* its cache
HydrateSkipped ==
    /\ classify.pc = "classifyProof"
    /\ \/ hasMappingFor(classify.mapping, classify.normalizedVerifier)
       \/ normalize(classify.normalizedVerifier) \in classify.composeCache
    /\ classify' = [ classify EXCEPT !.pc = "getSystemsFor" ]
    /\ UNCHANGED <<runVars, storeVars, fetch, plan>>

\* hydrateComposeVerifier: the five accessors answer
HydrateComposeVerifier(answer) ==
    /\ classify.pc = "classifyProof"
    /\ ~hasMappingFor(classify.mapping, classify.normalizedVerifier)
    /\ normalize(classify.normalizedVerifier) \notin classify.composeCache
    /\ classify' = [ classify EXCEPT !.pc = "getSystemsFor",
                       !.hydrated = "answered",
                       !.mapping =
                           addAddresses(
                               addAddresses(
                                   addAddresses(@, "TEE",
                                       {answer.sgxGeth, answer.tdxGeth, answer.sgxReth}),
                                   "RISC0", {answer.risc0Reth}),
                               "SP1", {answer.sp1Reth}),
                       !.composeCache = @ \cup {normalize(classify.normalizedVerifier)} ]
    /\ UNCHANGED <<runVars, storeVars, fetch, plan>>

\* hydrateComposeVerifier: an accessor throws, the address is not a compose
\* verifier
HydrateThrows ==
    /\ classify.pc = "classifyProof"
    /\ ~hasMappingFor(classify.mapping, classify.normalizedVerifier)
    /\ normalize(classify.normalizedVerifier) \notin classify.composeCache
    /\ classify' = [ classify EXCEPT !.pc = "getSystemsFor",
                       !.hydrated = "threw",
                       !.composeCache = @ \cup {normalize(classify.normalizedVerifier)} ]
    /\ UNCHANGED <<runVars, storeVars, fetch, plan>>

\* the rest of classifyProof: the addresses to check and their systems
ClassifyProofReturns ==
    /\ classify.pc = "getSystemsFor"
    /\ LET addressesToCheck ==
               AddressesToCheck(classify.normalizedVerifier, classify.proofData)
       IN  classify' = [ classify EXCEPT !.pc = "upsert",
                           !.addressesToCheck = addressesToCheck,
                           !.proofSystems = getSystemsFor(classify.mapping, addressesToCheck) ]
    /\ UNCHANGED <<runVars, storeVars, fetch, plan>>

\* handleBatchesProved after classifyProof: batchProof.upsert of the one
\* batch of the log, keyed by the log's transaction
UpsertBatchProof ==
    /\ classify.pc = "upsert"
    /\ classify' = [ classify EXCEPT !.pc = "idle",
                       !.calls = @ + 1,
                       !.batchProofs =
                           { p \in @ : p.proofTxHash # classify.calls + 1 }
                           \cup { [ proofTxHash |-> classify.calls + 1,
                                    verifierAddress |-> classify.normalizedVerifier,
                                    proofSystems |-> classify.proofSystems ] } ]
    /\ UNCHANGED <<runVars, storeVars, fetch, plan>>

ClassifyNext ==
    \/ \E verifier \in EventVerifiers, proofData \in ProofDatas :
           HandleBatchesProved(verifier, proofData)
    \/ HydrateSkipped
    \/ \E answer \in ComposeAnswers : HydrateComposeVerifier(answer)
    \/ HydrateThrows
    \/ ClassifyProofReturns
    \/ UpsertBatchProof

\* the systems an address is mapped to, whatever the case it is written in
SystemsMappedTo(address) ==
    { s \in ProofSystemSet :
        \E m \in classify.mapping[s] : toLowerCase(m) = toLowerCase(address) }

\* the elements of a sequence
Elements(seq) == { seq[i] : i \in 1..Len(seq) }

\* C19 (classification union): every address verifiers.json lists is mapped
\* under its lower-case form; what classifyProof returns is, without
\* repetition, exactly the union of the systems mapped case-insensitively to
\* the addresses it checks (the empty list when none is mapped, also after
\* the compose-verifier accessors threw); and every handled BatchesProved
\* log has its BatchProof row, the last one with the returned systems.
ClassificationUnion ==
    /\ \A s \in ProofSystemSet : \A a \in classify.file[s] :
           toLowerCase(a) \in classify.mapping[s]
    /\ classify.pc = "upsert" =>
           /\ Elements(classify.proofSystems) =
                  UNION { SystemsMappedTo(a) : a \in Elements(classify.addressesToCheck) }
           /\ Cardinality(Elements(classify.proofSystems)) = Len(classify.proofSystems)
    /\ classify.pc = "idle" =>
           /\ \A k \in 1..classify.calls :
                  Cardinality({ p \in classify.batchProofs : p.proofTxHash = k }) = 1
           /\ classify.calls > 0 =>
                  \E p \in classify.batchProofs :
                      /\ p.proofTxHash = classify.calls
                      /\ p.proofSystems = classify.proofSystems

\* a proof of an unmapped verifier was recorded with an empty system list;
\* then a compose proof of two sub-verifiers, one mapped to TEE only and the
\* other to SP1 only, one of them listed in the file in another case, was
\* classified as both and recorded
ClassificationUnionWitness ==
    /\ classify.pc = "idle"
    /\ classify.calls = 2
    /\ \E p \in classify.batchProofs : p.proofTxHash = 1 /\ p.proofSystems = <<>>
    /\ Len(classify.addressesToCheck) = 2
    /\ SystemsMappedTo(classify.addressesToCheck[1]) = {"TEE"}
    /\ SystemsMappedTo(classify.addressesToCheck[2]) = {"SP1"}
    /\ \E i \in 1..2 : \E s \in ProofSystemSet :
           /\ classify.addressesToCheck[i] \notin classify.file[s]
           /\ toLowerCase(classify.addressesToCheck[i]) \in
                  { toLowerCase(a) : a \in classify.file[s] }
    /\ classify.proofSystems = <<"TEE", "SP1">>
    /\ \E p \in classify.batchProofs :
           p.proofTxHash = classify.calls /\ p.proofSystems = <<"TEE", "SP1">>

\* the sub-proofs the calldata of the proof transaction holds: none when the
\* input is not a proveBatches call or the proof bytes are not a sub-proof
\* array
SubProofVerifiers ==
    IF classify.proofData.isNull \/ ~classify.proofData.decodes
    THEN <<>> ELSE classify.proofData.verifiers

\* C36 (address selection): when the calldata decodes to a non-empty array
\* of sub-proofs, classifyProof returns the systems mapped to the
\* sub-verifier addresses and nothing else, whatever the top-level verifier
\* is mapped to; when the calldata is absent, does not decode or decodes to
\* an empty array, it returns the systems mapped to the top-level verifier.
AddressSelection ==
    classify.pc = "upsert" =>
        IF SubProofVerifiers # <<>>
        THEN Elements(classify.proofSystems) =
                 UNION { SystemsMappedTo(a) : a \in Elements(SubProofVerifiers) }
        ELSE Elements(classify.proofSystems) = SystemsMappedTo(classify.verifier)

\* C36 witness: a proof whose calldata names one sub-verifier was classified
\* by that sub-verifier's systems, the top-level verifier being mapped to a
\* system that is not in the result
AddressSelectionWitness ==
    /\ classify.pc = "upsert"
    /\ Len(SubProofVerifiers) = 1
    /\ classify.proofSystems # <<>>
    /\ SystemsMappedTo(classify.verifier) # {}
    /\ SystemsMappedTo(classify.verifier) \cap Elements(classify.proofSystems) = {}

(***************************************************************************)
(* Part VI. The lock over time: invocations that die between two awaits    *)
(* without releasing, and triggers that keep coming.                       *)
(***************************************************************************)

\* an invocation whose process died: nothing is returned, nothing released
Died ==
    [ IdleRun EXCEPT !.pc = "done", !.outcome = "crashed" ]

\* the process dies between acquiring the lock and releasing it
Crash(r) ==
    /\ runs[r].pc \in PassPcs
    /\ runs' = [runs EXCEPT ![r] = Died]
    /\ UNCHANGED <<now, indexingState, lastWrite, storeVars, auxVars>>

\* the external schedule calls runIndexing() again
Retrigger(r) ==
    /\ runs[r].pc = "done"
    /\ runs' = [runs EXCEPT ![r] = IdleRun]
    /\ UNCHANGED <<now, indexingState, lastWrite, storeVars, auxVars>>

LockNext ==
    \/ Tick
    \/ \E r \in Runs :
        \/ AcquireLock(r)
        \/ NoNewBlocks(r)
        \/ BeginRange(r)
        \/ EndRange(r)
        \/ StepThrows(r)
        \/ Checkpoint(r)
        \/ FinalCheckpoint(r)
        \/ RefreshStatsAndRelease(r)
        \/ CatchAndRethrow(r)
        \/ Crash(r)
        \/ Retrigger(r)

\* the steps an invocation that is alive goes on to take, and the next trigger
RunStep(r) ==
    \/ AcquireLock(r)
    \/ NoNewBlocks(r)
    \/ BeginRange(r)
    \/ EndRange(r)
    \/ Checkpoint(r)
    \/ FinalCheckpoint(r)
    \/ RefreshStatsAndRelease(r)
    \/ CatchAndRethrow(r)
    \/ Retrigger(r)

\* time passes, live invocations go on, and every trigger source calls again
LockFairness ==
    /\ WF_vars(Tick)
    /\ \A r \in Runs : WF_vars(RunStep(r))

\* the three states of the lock
LockAbsent ==
    \/ ~indexingState.exists
    \/ indexingState.lockId = NULL /\ indexingState.lockExpiresAt = NULL

LockHeldUnexpired ==
    /\ indexingState.exists
    /\ indexingState.lockId # NULL
    /\ indexingState.lockExpiresAt # NULL
    /\ ~(indexingState.lockExpiresAt < now)

LockExpired ==
    /\ indexingState.exists
    /\ indexingState.lockId # NULL
    /\ indexingState.lockExpiresAt # NULL
    /\ indexingState.lockExpiresAt < now

\* a crashed invocation's token is still in the row, and its expiry is a
\* time the clock of the model reaches
LeftBehind ==
    \E r \in Runs :
        /\ runs[r].outcome = "crashed"
        /\ indexingState.exists
        /\ indexingState.lockId = r
        /\ indexingState.lockExpiresAt # NULL
        /\ indexingState.lockExpiresAt < MaxTime

\* an invocation has just acquired the lock and starts its pass
PassStarted ==
    \E r \in Runs : runs[r].pc = "acquired" /\ indexingState.lockId = r

\* C20: the lock row is always absent, held and unexpired, or expired; an
\* invocation acquires the lock exactly when it is absent or expired; and a
\* lock left behind by an invocation that died without releasing is followed
\* by a later invocation that acquires it and starts a pass.
LockReclaimable ==
    /\ [](LockAbsent \/ LockHeldUnexpired \/ LockExpired)
    /\ [][\A r \in Runs :
            (runs[r].pc = "idle" /\ runs'[r].pc # "idle") =>
                ((runs'[r].pc = "acquired" /\ indexingState'.lockId = r)
                    <=> (LockAbsent \/ LockExpired))]_vars
    /\ (LeftBehind ~> PassStarted)

\* C20 witness: a later invocation started a pass on the expired lock that a
\* crashed invocation had left behind
LockReclaimableWitness ==
    \E r, q \in Runs :
        /\ r # q
        /\ runs[r].outcome = "crashed"
        /\ runs[q].pc = "acquired"
        /\ indexingState.lockId = q
        /\ now > indexerLockTtlSeconds

(***************************************************************************)
(* Part VII. hydrateComposeVerifier when classifyProof calls overlap: the  *)
(* registry is one object per process, and two runIndexing invocations of  *)
(* one process handle BatchesProved logs at once when the second took over *)
(* the expired lock of the first. Here classify holds the registry, the    *)
(* position of each invocation's classifyProof call, and the number of     *)
(* times the accessors of each address were read.                          *)
(***************************************************************************)
\* the invocations of one process that overlap
Callers == 1..2
\* at most this many classifyProof calls per invocation
MaxHydrateCalls == 2

NormalizedVerifiers == { normalize(v) : v \in EventVerifiers }

IdleRegistry(file) ==
    [ mapping |-> loadFromFile(file), composeCache |-> {},
      calls |-> [ c \in Callers |-> [ pc |-> "idle", verifier |-> NONE, done |-> 0 ] ],
      readContracts |-> [ a \in NormalizedVerifiers |-> 0 ],
      hydrateCalls |-> 0 ]

CallReturned(c) ==
    [ pc |-> "idle", verifier |-> NONE, done |-> classify.calls[c].done + 1 ]

MayClassify(c) ==
    /\ classify.calls[c].pc = "idle"
    /\ classify.calls[c].done < MaxHydrateCalls

\* classifyProof line 63: the verifier has a mapping, hydrateComposeVerifier
\* is not called
ClassifyMapped(c, verifier) ==
    /\ MayClassify(c)
    /\ hasMappingFor(classify.mapping, verifier)
    /\ classify' = [ classify EXCEPT !.calls[c] = CallReturned(c) ]
    /\ UNCHANGED <<runVars, storeVars, fetch, plan>>

\* hydrateComposeVerifier lines 99-102: the address is in composeCache
HydrateCached(c, verifier) ==
    /\ MayClassify(c)
    /\ ~hasMappingFor(classify.mapping, verifier)
    /\ normalize(verifier) \in classify.composeCache
    /\ classify' = [ classify EXCEPT !.calls[c] = CallReturned(c),
                                     !.hydrateCalls = @ + 1 ]
    /\ UNCHANGED <<runVars, storeVars, fetch, plan>>

\* hydrateComposeVerifier lines 104-132: the five readContract calls are
\* sent and awaited
HydrateReads(c, verifier) ==
    /\ MayClassify(c)
    /\ ~hasMappingFor(classify.mapping, verifier)
    /\ normalize(verifier) \notin classify.composeCache
    /\ classify' = [ classify EXCEPT !.calls[c].pc = "awaiting",
                                     !.calls[c].verifier = verifier,
                                     !.readContracts[normalize(verifier)] = @ + 1,
                                     !.hydrateCalls = @ + 1 ]
    /\ UNCHANGED <<runVars, storeVars, fetch, plan>>

\* lines 134-137: the accessors answered
HydrateResolves(c, answer) ==
    /\ classify.calls[c].pc = "awaiting"
    /\ classify' = [ classify EXCEPT
                       !.calls[c] = CallReturned(c),
                       !.mapping =
                           addAddresses(
                               addAddresses(
                                   addAddresses(@, "TEE",
                                       {answer.sgxGeth, answer.tdxGeth, answer.sgxReth}),
                                   "RISC0", {answer.risc0Reth}),
                               "SP1", {answer.sp1Reth}),
                       !.composeCache = @ \cup {normalize(classify.calls[c].verifier)} ]
    /\ UNCHANGED <<runVars, storeVars, fetch, plan>>

\* lines 138-143: an accessor threw
HydrateRejects(c) ==
    /\ classify.calls[c].pc = "awaiting"
    /\ classify' = [ classify EXCEPT
                       !.calls[c] = CallReturned(c),
                       !.composeCache = @ \cup {normalize(classify.calls[c].verifier)} ]
    /\ UNCHANGED <<runVars, storeVars, fetch, plan>>

\* the accessor answers of the model: every accessor returns the same address
UniformAnswers == { a \in ComposeAnswers : \A f \in DOMAIN a : a[f] = a.sgxGeth }

HydrateNext ==
    \E c \in Callers :
        \/ \E verifier \in EventVerifiers : ClassifyMapped(c, verifier)
        \/ \E verifier \in EventVerifiers : HydrateCached(c, verifier)
        \/ \E verifier \in EventVerifiers : HydrateReads(c, verifier)
        \/ \E answer \in UniformAnswers : HydrateResolves(c, answer)
        \/ HydrateRejects(c)

\* C35 (one introspection per address): the accessors of an address are read
\* at most once in the life of the process, whether they answered or threw,
\* and never for an address that has a mapping.
IntrospectedOnce ==
    /\ [](\A a \in NormalizedVerifiers : classify.readContracts[a] <= 1)
    /\ [][ \A a \in NormalizedVerifiers :
             classify'.readContracts[a] > classify.readContracts[a] =>
                 /\ ~hasMappingFor(classify.mapping, a)
                 /\ a \notin classify.composeCache ]_vars


\* the parts of the state the run and store specifications leave alone
AuxInit ==
    /\ fetch = IdleFetch(0, 0)
    /\ plan = NoPlan
    /\ classify = NoClassify

\* indexerLogRangeLimit is configured or not
FetchInit ==
    /\ RunInit /\ StoreInit
    /\ fetch \in { IdleFetch(limit, 0) : limit \in RangeLimits }
    /\ plan = NoPlan
    /\ classify = NoClassify

\* every configuration of the bounded set
PlanInit ==
    /\ RunInit /\ StoreInit
    /\ fetch = IdleFetch(0, 0)
    /\ plan \in { IdlePlan(config, 0) : config \in Configs }
    /\ classify = NoClassify

\* every verifiers.json of the bounded set, before any classifyProof call
HydrateInit ==
    /\ RunInit /\ StoreInit
    /\ fetch = IdleFetch(0, 0)
    /\ plan = NoPlan
    /\ classify \in { IdleRegistry(file) : file \in VerifierConfigFiles }

\* every verifiers.json of the bounded set
ClassifyInit ==
    /\ RunInit /\ StoreInit
    /\ fetch = IdleFetch(0, 0)
    /\ plan = NoPlan
    /\ classify \in { IdleClassify(file) : file \in VerifierConfigFiles }

Init == RunInit /\ StoreInit /\ AuxInit

\* the run orchestration over a store nobody writes
SpecRun == Init /\ [][RunNext]_vars

\* processRange calls of one process at a time over a chain that grows and reorganises
SpecStore == Init /\ [][StoreNext]_vars

\* processRange over the longer chains of one batch
\* processRange over chains with proposals dated before or after their block
SpecPropose == Init /\ [][ProposeNext]_vars

SpecStoreLong == Init /\ [][StoreLongNext]_vars

\* processRange over chains with logs that do not decode
SpecDecode == Init /\ [][DecodeNext]_vars

\* the classifyProof calls of two overlapping invocations of one process
SpecHydrate == HydrateInit /\ [][HydrateNext]_vars

\* one process's getLogsSafe calls against a provider that answers or rejects
SpecFetch == FetchInit /\ [][FetchNext]_vars

\* the same calls when the loop of getLogsSafe always takes its next step,
\* whatever the provider answers
SpecFetchLive == FetchInit /\ [][FetchNext]_vars /\ WF_vars(FetchNext)

\* one process's runs, one after another, under each configuration
SpecPlan == PlanInit /\ [][PlanNext]_vars

\* invocations that can die holding the lock, under triggers that recur
SpecLock == Init /\ [][LockNext]_vars /\ LockFairness

\* BatchesProved logs classified one after another under each verifiers.json
SpecClassify == ClassifyInit /\ [][ClassifyNext]_vars
====
